---- MODULE Spec2Model ----
(***************************************************************************)
(* A model of github.com/mdlayher/netlink: the connection state machine    *)
(* (Conn.Send, Conn.Receive, Conn.Execute, Conn.Close, Validate) over the  *)
(* Linux socket back-end (conn.Send, conn.Receive, conn.Close,             *)
(* conn.SetOption, conn.SyscallConn).                                      *)
(*                                                                         *)
(* Conventions.                                                            *)
(*  - A Go uint32 that is incremented (the sequence counter, and with it   *)
(*    Header.Sequence) is held as its two 16-bit halves <<hi, lo>>: TLC's  *)
(*    integers are 32-bit signed and cannot hold 2^32 - 1.  Header.Length  *)
(*    and Header.PID hold only small values here and are plain naturals.   *)
(*  - A nil slice and an empty slice are both the empty sequence << >>.    *)
(*  - An error value is a record [kind, code]; Nil is "no error".          *)
(***************************************************************************)
EXTENDS Integers, Sequences, FiniteSets, TLC

VARIABLES
    seq,        \* Conn.seq: the atomically incremented sequence counter
    pid,        \* Conn.pid: the PID assigned by netlink
    closed,     \* the socket's sticky closed flag
    rxq,        \* datagrams pending in the socket, oldest first
    sent,       \* the messages handed to the kernel by conn.Send, in order
    sockopts,   \* the netlink socket options that are enabled
    pc,         \* per thread: where its current call stands
    loc,        \* per thread: the locals of its current call
    res,        \* per thread: what its last call returned
    calls,      \* number of calls started so far
    delivered,  \* number of datagrams the kernel has delivered so far
    s0,         \* the value the counter had when the Conn was made
    closeReturned, \* whether a call of Conn.Close has returned
    assigned,   \* the Sequence given to each Send that asked for one, in order
    fcall,      \* a call of a pure function: its name, arguments and result
    rdl,        \* the read deadline: as last asked for, and as the socket has it
    dial        \* the Dial that makes the connection: its step, Config and outcome

vars == <<seq, pid, closed, rxq, sent, sockopts, pc, loc, res, calls,
          delivered, s0, closeReturned, assigned, fcall, rdl, dial>>

connVars == <<seq, pid, closed, rxq, sent, sockopts, pc, loc, res, calls,
              delivered, s0, closeReturned, assigned, rdl, dial>>

(***************************************************************************)
(* Bounds of the model.                                                    *)
(***************************************************************************)
MaxCalls == 3       \* calls started on the connection, all threads together
MaxDeliver == 1     \* datagrams the kernel delivers in the concurrent model
MaxNotify == 1      \* notifications the kernel delivers in the life cycle model
MaxReads == 4       \* back-end reads that yield a datagram in the staged model
MaxReplies == 2     \* replies handed to Validate
MaxDatagrams == 2   \* datagrams the kernel delivers in the two-receiver model

Threads == {"t1", "t2"}

(***************************************************************************)
(* uint32 as two 16-bit halves.                                            *)
(***************************************************************************)
Half == 2 ^ 16

U32(hi, lo) == <<hi, lo>>

U32Zero == U32(0, 0)

\* x + 1 modulo 2^32
U32Inc(x) ==
    IF x[2] = Half - 1
    THEN U32((x[1] + 1) % Half, 0)
    ELSE U32(x[1], x[2] + 1)

\* x + k modulo 2^32, for a small natural k
RECURSIVE U32Add(_, _)
U32Add(x, k) == IF k = 0 THEN x ELSE U32Add(U32Inc(x), k - 1)

(***************************************************************************)
(* Header types and flags.                                                 *)
(***************************************************************************)
HeaderFlagsRequest == 1
HeaderFlagsMulti == 2
HeaderFlagsAcknowledge == 4
HeaderFlagsEcho == 8
HeaderFlagsDumpInterrupted == 16
HeaderFlagsDumpFiltered == 32
HeaderFlagsRoot == 256
HeaderFlagsMatch == 512
HeaderFlagsAtomic == 768
HeaderTypeError == 2
HeaderTypeDone == 3

\* a | b on naturals
RECURSIVE BitOr(_, _)
BitOr(a, b) ==
    IF a = 0 THEN b ELSE IF b = 0 THEN a
    ELSE (IF a % 2 = 1 \/ b % 2 = 1 THEN 1 ELSE 0) + 2 * BitOr(a \div 2, b \div 2)

HeaderFlagsDump == BitOr(HeaderFlagsRoot, HeaderFlagsMatch)

\* m.Header.Flags & flag != 0, for a single-bit flag
HasFlag(flags, flag) == (flags \div flag) % 2 = 1

\* Message{Header: Header{...}, Data: data}
Msg(length, type, flags, sequence, p, data) ==
    [Length |-> length, Type |-> type, Flags |-> flags,
     Sequence |-> sequence, PID |-> p, Data |-> data]

\* Message{}: the zero value
ZeroMessage == Msg(0, 0, 0, U32Zero, 0, << >>)

(***************************************************************************)
(* Errors.                                                                 *)
(***************************************************************************)
Err(kind, code) == [kind |-> kind, code |-> code]

Nil == Err("nil", 0)

errMismatchedSequence == Err("mismatched sequence in netlink reply", 0)
errMismatchedPID == Err("mismatched PID in netlink reply", 0)
errShortErrorMessage == Err("not enough data for netlink error code", 0)
errTooLarge == Err("netlink message data too large", 0)
errIncorrectMessageLength == Err("netlink message header length incorrect", 0)

\* a closed socket, found closed on entry to an operation: os.SyscallError{EBADF}
errEBADF == Err("EBADF", 0)
\* a socket closed while the operation was blocked in the poller
errFileClosing == Err("use of closed file", 0)
\* os.NewSyscallError("setsockopt", unix.ENOPROTOOPT)
errENOPROTOOPT == Err("ENOPROTOOPT", 0)
\* syscall.ParseNetlinkMessage: a header whose length runs past the buffer
errEINVAL == Err("EINVAL", 0)
\* a read deadline that has passed: os.ErrDeadlineExceeded
errTimeout == Err("i/o timeout", 0)
\* what the kernel may answer to bind, getsockname
errBind == Err("bind", 0)
errGetsockname == Err("getsockname", 0)
\* a Go run-time panic (index out of range)
errPanic == Err("panic", 0)

ENOENT == 2

\* syscall.Errno(errno).  Errno is a uintptr as wide as int, so that the
\* conversion loses nothing: code is the value read back as an int, the
\* reading Errno.Error and Errno.Is take.
newError(errno) == Err("errno", errno)

\* os.IsNotExist on an error of this package: the errno is ENOENT
IsNotExist(e) == e.kind = "errno" /\ e.code = ENOENT

(***************************************************************************)
(* Message lengths.                                                        *)
(***************************************************************************)
nlmsgHeaderLen == 16

\* the smallest multiple of 4 that is >= n
nlmsgAlign(n) == ((n + 3) \div 4) * 4

\* the length of a message with n bytes of payload
nlmsgLength(n) == n + nlmsgAlign(nlmsgHeaderLen)

\* Conn.Send's limit on nlmsgLength(len(m.Data)): 1024 * 32
MaxMessageLength == 32768

\* Message.MarshalBinary returns no error
MarshalOK(m) ==
    LET ml == nlmsgAlign(m.Length)
    IN  ~(ml < nlmsgHeaderLen \/ ml # m.Length)

\* getInt32(b): the int32 held in 4 bytes, on a little-endian host
getInt32(b) ==
    b[1] + 256 * b[2] + 65536 * b[3]
      + 16777216 * (IF b[4] >= 128 THEN b[4] - 256 ELSE b[4])

(***************************************************************************)
(* Datagrams on the wire, and conn.Receive's buffer.                       *)
(***************************************************************************)
\* os.Getpagesize(), scaled down: the size of conn.Receive's first buffer
PageSize == 32

Min(a, b) == IF a < b THEN a ELSE b

\* the bytes message m takes in a datagram: header, payload and padding
WireLen(m) == nlmsgAlign(nlmsgLength(Len(m.Data)))

RECURSIVE DatagramLen(_)
\* the bytes of datagram d
DatagramLen(d) == IF d = << >> THEN 0 ELSE WireLen(Head(d)) + DatagramLen(Tail(d))

\* Recvmsg into a buffer of buf bytes with datagram d at the head of the
\* queue: the number of bytes copied; what does not fit is cut off
Recvmsg(d, buf) == Min(DatagramLen(d), buf)

RECURSIVE ParseNetlinkMessage(_, _)
\* syscall.ParseNetlinkMessage on the first n bytes of datagram d: the
\* messages that lie whole within them; less than a header left over is
\* dropped, a message that runs past the end is EINVAL
ParseNetlinkMessage(d, n) ==
    IF d = << >> \/ n < nlmsgHeaderLen THEN [msgs |-> << >>, err |-> Nil]
    ELSE IF WireLen(Head(d)) > n THEN [msgs |-> << >>, err |-> errEINVAL]
    ELSE LET rest == ParseNetlinkMessage(Tail(d), n - WireLen(Head(d)))
         IN  IF rest.err # Nil THEN rest
             ELSE [msgs |-> <<Head(d)>> \o rest.msgs, err |-> Nil]

(***************************************************************************)
(* Conn.Receive's check of one message for a netlink error.                *)
(***************************************************************************)
\* a check that takes every message of type error for an error
checkMessage_NoSuccess(m) ==
    IF m.Type # HeaderTypeError THEN Nil
    ELSE IF Len(m.Data) < 4 THEN errShortErrorMessage
    ELSE newError(-1 * getInt32(SubSeq(m.Data, 1, 4)))

\* a check that takes the code for the errno as it comes
checkMessage_NoNegate(m) ==
    IF m.Type # HeaderTypeError THEN Nil
    ELSE IF Len(m.Data) < 4 THEN errShortErrorMessage
    ELSE LET c == getInt32(SubSeq(m.Data, 1, 4))
         IN  IF c # 0 THEN newError(c) ELSE Nil

checkMessage(m) ==
    IF m.Type # HeaderTypeError THEN Nil
    ELSE IF Len(m.Data) < 4 THEN errShortErrorMessage
    ELSE LET c == getInt32(SubSeq(m.Data, 1, 4))
         IN  IF c # 0 THEN newError(-1 * c) ELSE Nil

(***************************************************************************)
(* Conn.receive's loop over the messages of one back-end read: whether a   *)
(* multi-part message that is not done was seen, and the first error.      *)
(* The loop returns at the first message that carries an error.            *)
(***************************************************************************)
RECURSIVE receiveScan(_, _, _)
receiveScan(msgs, i, multi) ==
    IF i > Len(msgs) THEN [err |-> Nil, multi |-> multi]
    ELSE LET m == msgs[i]
             multi2 == multi \/ (HasFlag(m.Flags, HeaderFlagsMulti) /\ m.Type # HeaderTypeDone)
             e == checkMessage(m)
         IN  IF e # Nil THEN [err |-> e, multi |-> multi2]
             ELSE receiveScan(msgs, i + 1, multi2)

\* Conn.Receive, once Conn.receive has returned msgs without an error:
\* the final message is trimmed when it is the multi-part done indicator.
\* Indexing msgs[len(msgs)-1] panics when msgs is empty.
ReceiveTrim(msgs) ==
    IF Len(msgs) = 0 THEN [msgs |-> << >>, err |-> errPanic]
    ELSE LET m == msgs[Len(msgs)]
         IN  IF HasFlag(m.Flags, HeaderFlagsMulti) /\ m.Type = HeaderTypeDone
             THEN [msgs |-> SubSeq(msgs, 1, Len(msgs) - 1), err |-> Nil]
             ELSE [msgs |-> msgs, err |-> Nil]

\* a receive that looks for errors in its first read only
receiveStep_UncheckedLater(acc, msgs) ==
    LET scan == receiveScan(msgs, 1, FALSE)
    IN  IF scan.err # Nil /\ acc = << >>
        THEN [more |-> FALSE, msgs |-> << >>, err |-> scan.err]
        ELSE [more |-> scan.multi, msgs |-> acc \o msgs, err |-> Nil]

\* Conn.receive after one back-end read msgs, with acc the messages of the
\* reads before it: an error discards everything; a multi-part read asks for
\* another read; otherwise the call is over.
receiveStep(acc, msgs) ==
    LET scan == receiveScan(msgs, 1, FALSE)
    IN  IF scan.err # Nil
        THEN [more |-> FALSE, msgs |-> << >>, err |-> scan.err]
        ELSE [more |-> scan.multi, msgs |-> acc \o msgs, err |-> Nil]

(***************************************************************************)
(* Validate: the first reply whose sequence or PID does not match.         *)
(***************************************************************************)
RECURSIVE ValidateFrom(_, _, _)
ValidateFrom(request, replies, i) ==
    IF i > Len(replies) THEN Nil
    ELSE LET m == replies[i]
         IN  IF m.Sequence # request.Sequence /\ request.Sequence # U32Zero
             THEN errMismatchedSequence
             ELSE IF m.PID # request.PID /\ request.PID # 0 /\ m.PID # 0
             THEN errMismatchedPID
             ELSE ValidateFrom(request, replies, i + 1)

RECURSIVE ValidateStrictFrom(_, _, _)
ValidateStrictFrom(request, replies, i) ==
    IF i > Len(replies) THEN Nil
    ELSE LET m == replies[i]
         IN  IF m.Sequence # request.Sequence THEN errMismatchedSequence
             ELSE IF m.PID # request.PID THEN errMismatchedPID
             ELSE ValidateStrictFrom(request, replies, i + 1)

\* a Validate that looks at the sequence of every reply before any PID
Validate_SequencesFirst(request, replies) ==
    IF \E i \in 1..Len(replies) :
          replies[i].Sequence # request.Sequence /\ request.Sequence # U32Zero
    THEN errMismatchedSequence
    ELSE ValidateFrom(request, replies, 1)

\* a Validate without the exceptions for a zero sequence and a zero PID
Validate_Strict(request, replies) == ValidateStrictFrom(request, replies, 1)

Validate(request, replies) == ValidateFrom(request, replies, 1)

(***************************************************************************)
(* Conn.Send's population of the header, given the value nextSequence      *)
(* would return and the connection's PID.                                  *)
(***************************************************************************)
\* a Send that computes the length whether or not the caller gave one
SendFill_OverwriteLength(m, next, p) ==
    [m EXCEPT !.Length = nlmsgAlign(nlmsgLength(Len(m.Data))),
              !.Sequence = IF m.Sequence = U32Zero THEN next ELSE m.Sequence,
              !.PID = IF m.PID = 0 THEN p ELSE m.PID]

SendFill(m, next, p) ==
    [m EXCEPT !.Length = IF m.Length = 0 THEN nlmsgAlign(nlmsgLength(Len(m.Data))) ELSE m.Length,
              !.Sequence = IF m.Sequence = U32Zero THEN next ELSE m.Sequence,
              !.PID = IF m.PID = 0 THEN p ELSE m.PID]

\* Conn.nextSequence: the incremented value, which is also the new counter
\* a counter that is read and never advanced
nextSequence_LoadOnly(s) == s

nextSequence(s) == U32Inc(s)

\* Conn.Execute once Send has returned req and Receive has returned
\* (replies, rerr)
\* an Execute that does not validate
ExecuteResult_NoValidate(req, replies, rerr) ==
    IF rerr # Nil THEN [msgs |-> << >>, err |-> rerr]
    ELSE [msgs |-> replies, err |-> Nil]

ExecuteResult(req, replies, rerr) ==
    IF rerr # Nil THEN [msgs |-> << >>, err |-> rerr]
    ELSE IF Validate(req, replies) # Nil
    THEN [msgs |-> << >>, err |-> Validate(req, replies)]
    ELSE [msgs |-> replies, err |-> Nil]

(***************************************************************************)
(* The Linux back-end.                                                     *)
(***************************************************************************)
ConnOptions ==
    {"PacketInfo", "BroadcastError", "NoENOBUFS", "ListenAllNSID",
     "CapAcknowledge", "ExtendedAcknowledge", "GetStrictCheck"}

\* a conversion whose default case takes the option for a known one
linuxOption_DefaultKnown(o) == TRUE

\* linuxOption: whether o is a known option
linuxOption(o) == o \in ConnOptions

\* An operation entering the socket finds it open, or fails with EBADF.
sockEnter(c) == IF c THEN errEBADF ELSE Nil

\* An operation blocked in the poller is woken by Close.
sockWake(c) == IF c THEN errFileClosing ELSE Nil

\* A read that enters the socket after the read deadline fails at once.
sockDeadline(at) == IF at = "past" THEN errTimeout ELSE Nil

\* net.Error's Timeout() of an error of this package
IsTimeout(e) == e = errTimeout

\* socket Close: sets the flag; a second Close is a no-op; no error
sockClose(c) == [closed |-> TRUE, err |-> Nil]

\* a Close that fails, as other operations do, on a closed socket
connClose_CheckedTwice(c) == [closed |-> TRUE, err |-> sockEnter(c)]

\* a Close that leaves the socket open
connClose_Noop(c) == [closed |-> c, err |-> Nil]

\* conn.Close
connClose(c) == sockClose(c)

\* conn.Send: marshal, then sendmsg
connSend(m, c) ==
    IF ~MarshalOK(m) THEN errIncorrectMessageLength ELSE sockEnter(c)

\* conn.SetOption: an unknown option fails before the socket is used
connSetOption(o, c) ==
    IF ~linuxOption(o) THEN errENOPROTOOPT ELSE sockEnter(c)

\* conn.SyscallConn
connSyscallConn(c) == sockEnter(c)

\* a back-end that drops the deadline it is given
connSetReadDeadline_Ignored(at, d) == at

\* conn.SetReadDeadline(d) on a socket whose deadline is at: the new deadline
connSetReadDeadline(at, d) == d

(***************************************************************************)
(* The calls of a thread.  pc[t] is                                        *)
(*   "idle"   no call in progress                                          *)
(*   "send"   Conn.Send has populated the header and calls conn.Send       *)
(*   "peek"   conn.Receive calls Recvmsg with MSG_PEEK                     *)
(*   "peekw"  ... and is inside it, waiting for a datagram                 *)
(*   "read"   conn.Receive calls Recvmsg to read the datagram out          *)
(*   "readw"  ... and is inside it, waiting for a datagram                 *)
(***************************************************************************)
NoLoc ==
    [op |-> "none", in |-> ZeroMessage, m |-> ZeroMessage, acc |-> << >>,
     reads |-> << >>, afterClose |-> FALSE, buf |-> PageSize, dgrams |-> << >>,
     timedOut |-> FALSE, rdlAtStart |-> "none"]

NoRes ==
    [op |-> "none", arg |-> "", in |-> ZeroMessage, m |-> ZeroMessage,
     msgs |-> << >>, err |-> Nil, afterClose |-> FALSE, handed |-> FALSE,
     sendErr |-> Nil, recvErr |-> Nil, recvMsgs |-> << >>, reads |-> << >>,
     dgrams |-> << >>, rdlAtStart |-> "none", timedOut |-> FALSE]

\* the call of thread t returns r
Return(t, r) ==
    /\ pc' = [pc EXCEPT ![t] = "idle"]
    /\ loc' = [loc EXCEPT ![t] = NoLoc]
    /\ res' = [res EXCEPT ![t] = r]

\* Conn.Send(m), or the Send of Conn.Execute(m), up to the call of conn.Send
SendCall(t, m, op) ==
    /\ dial.conn
    /\ pc[t] = "idle"
    /\ calls < MaxCalls
    /\ calls' = calls + 1
    /\ IF nlmsgLength(Len(m.Data)) > MaxMessageLength
       THEN /\ Return(t, [NoRes EXCEPT !.op = op, !.in = m, !.err = errTooLarge,
                                       !.sendErr = errTooLarge, !.afterClose = closeReturned])
            /\ UNCHANGED <<seq, assigned>>
       ELSE /\ seq' = IF m.Sequence = U32Zero THEN nextSequence(seq) ELSE seq
            /\ LET filled == SendFill(m, nextSequence(seq), pid)
               IN  /\ assigned' = IF m.Sequence = U32Zero
                                  THEN Append(assigned, filled.Sequence)
                                  ELSE assigned
                   /\ loc' = [loc EXCEPT ![t] = [NoLoc EXCEPT !.op = op, !.in = m, !.m = filled,
                                                              !.afterClose = closeReturned]]
            /\ pc' = [pc EXCEPT ![t] = "send"]
            /\ UNCHANGED res
    /\ UNCHANGED <<pid, closed, rxq, sent, sockopts, delivered, s0, closeReturned, fcall, rdl, dial>>

\* conn.Send(m) and the return of Conn.Send; Conn.Execute goes on to Receive
SendOS(t) ==
    /\ pc[t] = "send"
    /\ LET e == connSend(loc[t].m, closed)
       IN  IF e # Nil
           THEN /\ Return(t, [NoRes EXCEPT !.op = loc[t].op, !.in = loc[t].in, !.err = e,
                                           !.sendErr = e, !.afterClose = loc[t].afterClose])
                /\ UNCHANGED sent
           ELSE /\ sent' = Append(sent, loc[t].m)
                /\ IF loc[t].op = "Send"
                   THEN Return(t, [NoRes EXCEPT !.op = "Send", !.in = loc[t].in, !.m = loc[t].m,
                                                !.handed = TRUE,
                                                !.afterClose = loc[t].afterClose])
                   ELSE /\ pc' = [pc EXCEPT ![t] = "peek"]
                        /\ loc' = [loc EXCEPT ![t].rdlAtStart = rdl.asked]
                        /\ UNCHANGED res
    /\ UNCHANGED <<seq, pid, closed, rxq, sockopts, calls, delivered, s0, closeReturned, assigned, fcall, rdl, dial>>

\* Conn.Receive()
RecvCall(t) ==
    /\ dial.conn
    /\ pc[t] = "idle"
    /\ calls < MaxCalls
    /\ calls' = calls + 1
    /\ pc' = [pc EXCEPT ![t] = "peek"]
    /\ loc' = [loc EXCEPT ![t] = [NoLoc EXCEPT !.op = "Receive", !.afterClose = closeReturned,
                                               !.rdlAtStart = rdl.asked]]
    /\ UNCHANGED <<seq, pid, closed, rxq, sent, sockopts, res, delivered, s0, closeReturned, assigned, fcall, rdl, dial>>

\* Conn.Receive returns (msgs, err); inside Conn.Execute, Validate follows
RecvReturn(t, msgs, err, reads, dgrams) ==
    IF loc[t].op = "Receive"
    THEN Return(t, [NoRes EXCEPT !.op = "Receive", !.msgs = msgs, !.err = err,
                                 !.recvErr = err, !.recvMsgs = msgs, !.reads = reads,
                                 !.dgrams = dgrams, !.afterClose = loc[t].afterClose,
                                 !.rdlAtStart = loc[t].rdlAtStart,
                                 !.timedOut = loc[t].timedOut])
    ELSE LET r == ExecuteResult(loc[t].m, msgs, err)
         IN  Return(t, [NoRes EXCEPT !.op = "Execute", !.in = loc[t].in, !.m = loc[t].m,
                                     !.msgs = r.msgs, !.err = r.err, !.handed = TRUE,
                                     !.recvErr = err, !.recvMsgs = msgs, !.reads = reads,
                                     !.dgrams = dgrams, !.afterClose = loc[t].afterClose,
                                     !.rdlAtStart = loc[t].rdlAtStart,
                                     !.timedOut = loc[t].timedOut])

\* conn.Receive enters Recvmsg(MSG_PEEK), or Recvmsg
RecvEnter(t) ==
    /\ pc[t] \in {"peek", "read"}
    /\ IF sockEnter(closed) # Nil
       THEN RecvReturn(t, << >>, sockEnter(closed), loc[t].reads, loc[t].dgrams)
       ELSE IF sockDeadline(rdl.at) # Nil
       THEN RecvReturn(t, << >>, sockDeadline(rdl.at), loc[t].reads, loc[t].dgrams)
       ELSE /\ pc' = [pc EXCEPT ![t] = IF pc[t] = "peek" THEN "peekw" ELSE "readw"]
            /\ UNCHANGED <<loc, res>>
    /\ UNCHANGED <<seq, pid, closed, rxq, sent, sockopts, calls, delivered, s0, closeReturned, assigned, fcall, rdl, dial>>

\* a peek that stops when the bytes returned are no more than the buffer
PeekDone_OffByOne(t) ==
    /\ pc[t] = "peekw"
    /\ IF sockWake(closed) # Nil
       THEN RecvReturn(t, << >>, sockWake(closed), loc[t].reads, loc[t].dgrams)
       ELSE IF loc[t].timedOut
       THEN RecvReturn(t, << >>, errTimeout, loc[t].reads, loc[t].dgrams)
       ELSE /\ rxq # << >>
            /\ IF Recvmsg(Head(rxq), loc[t].buf) <= loc[t].buf
               THEN /\ pc' = [pc EXCEPT ![t] = "read"]
                    /\ UNCHANGED loc
               ELSE /\ pc' = [pc EXCEPT ![t] = "peek"]
                    /\ loc' = [loc EXCEPT ![t].buf = 2 * loc[t].buf]
            /\ UNCHANGED res
    /\ UNCHANGED <<seq, pid, closed, rxq, sent, sockopts, calls, delivered, s0, closeReturned, assigned, fcall, rdl, dial>>

\* Recvmsg(MSG_PEEK) returns: the socket was closed meanwhile, or a datagram
\* is pending; when it fills the buffer, the buffer is doubled and the peek
\* made again, else the datagram is read out
PeekDone(t) ==
    /\ pc[t] = "peekw"
    /\ IF sockWake(closed) # Nil
       THEN RecvReturn(t, << >>, sockWake(closed), loc[t].reads, loc[t].dgrams)
       ELSE IF loc[t].timedOut
       THEN RecvReturn(t, << >>, errTimeout, loc[t].reads, loc[t].dgrams)
       ELSE /\ rxq # << >>
            /\ IF Recvmsg(Head(rxq), loc[t].buf) < loc[t].buf
               THEN /\ pc' = [pc EXCEPT ![t] = "read"]
                    /\ UNCHANGED loc
               ELSE /\ pc' = [pc EXCEPT ![t] = "peek"]
                    /\ loc' = [loc EXCEPT ![t].buf = 2 * loc[t].buf]
            /\ UNCHANGED res
    /\ UNCHANGED <<seq, pid, closed, rxq, sent, sockopts, calls, delivered, s0, closeReturned, assigned, fcall, rdl, dial>>

\* Recvmsg returns the oldest datagram, and Conn.receive goes through it
ReadDone(t) ==
    /\ pc[t] = "readw"
    /\ IF sockWake(closed) # Nil
       THEN /\ RecvReturn(t, << >>, sockWake(closed), loc[t].reads, loc[t].dgrams)
            /\ UNCHANGED rxq
       ELSE IF loc[t].timedOut
       THEN /\ RecvReturn(t, << >>, errTimeout, loc[t].reads, loc[t].dgrams)
            /\ UNCHANGED rxq
       ELSE /\ rxq # << >>
            /\ rxq' = Tail(rxq)
            /\ LET n == Recvmsg(Head(rxq), loc[t].buf)
                   raw == ParseNetlinkMessage(Head(rxq), nlmsgAlign(n))
                   step == receiveStep(loc[t].acc, raw.msgs)
                   reads == Append(loc[t].reads, raw.msgs)
                   dgrams == Append(loc[t].dgrams, Head(rxq))
               IN  IF raw.err # Nil
                   THEN RecvReturn(t, << >>, raw.err, loc[t].reads, dgrams)
                   ELSE IF step.err # Nil
                   THEN RecvReturn(t, << >>, step.err, reads, dgrams)
                   ELSE IF step.more
                   THEN /\ pc' = [pc EXCEPT ![t] = "peek"]
                        /\ loc' = [loc EXCEPT ![t].acc = step.msgs, ![t].reads = reads,
                                              ![t].dgrams = dgrams, ![t].buf = PageSize]
                        /\ UNCHANGED res
                   ELSE RecvReturn(t, ReceiveTrim(step.msgs).msgs, ReceiveTrim(step.msgs).err,
                                   reads, dgrams)
    /\ UNCHANGED <<seq, pid, closed, sent, sockopts, calls, delivered, s0, closeReturned, assigned, fcall, rdl, dial>>

\* Conn.Close()
CloseCall(t) ==
    /\ dial.conn
    /\ pc[t] = "idle"
    /\ calls < MaxCalls
    /\ calls' = calls + 1
    /\ closed' = connClose(closed).closed
    /\ closeReturned' = TRUE
    /\ res' = [res EXCEPT ![t] = [NoRes EXCEPT !.op = "Close", !.err = connClose(closed).err,
                                               !.afterClose = closeReturned]]
    /\ UNCHANGED <<seq, pid, rxq, sent, sockopts, pc, loc, delivered, s0, assigned, fcall, rdl, dial>>

\* Conn.SetOption(o, true)
SetOptionCall(t, o) ==
    /\ dial.conn
    /\ pc[t] = "idle"
    /\ calls < MaxCalls
    /\ calls' = calls + 1
    /\ sockopts' = IF connSetOption(o, closed) = Nil THEN sockopts \cup {o} ELSE sockopts
    /\ res' = [res EXCEPT ![t] = [NoRes EXCEPT !.op = "SetOption", !.arg = o,
                                               !.err = connSetOption(o, closed),
                                               !.afterClose = closeReturned]]
    /\ UNCHANGED <<seq, pid, closed, rxq, sent, pc, loc, delivered, s0, closeReturned, assigned, fcall, rdl, dial>>

\* Conn.SyscallConn()
SyscallConnCall(t) ==
    /\ dial.conn
    /\ pc[t] = "idle"
    /\ calls < MaxCalls
    /\ calls' = calls + 1
    /\ res' = [res EXCEPT ![t] = [NoRes EXCEPT !.op = "SyscallConn",
                                               !.err = connSyscallConn(closed),
                                               !.afterClose = closeReturned]]
    /\ UNCHANGED <<seq, pid, closed, rxq, sent, sockopts, pc, loc, delivered, s0, closeReturned, assigned, fcall, rdl, dial>>

\* the kernel queues datagram d on the bound socket, at most max of them
Deliver(d, max) ==
    /\ dial.pc \notin {"socket", "bind"}
    /\ delivered < max
    /\ ~closed
    /\ delivered' = delivered + 1
    /\ rxq' = Append(rxq, d)
    /\ UNCHANGED <<seq, pid, closed, sent, sockopts, pc, loc, res, calls, s0, closeReturned, assigned, fcall, rdl, dial>>

(***************************************************************************)
(* The concurrent model: two threads share one connection, and the kernel  *)
(* answers what was sent.                                                  *)
(***************************************************************************)
\* no read deadline is set
NoDeadline == [asked |-> "none", at |-> "none"]

\* Config{}
NoConfig == [Strict |-> FALSE, PID |-> 0]

\* a Dial that has returned a connection whose socket is bound to PID p
Dialed(p) ==
    [pc |-> "done", cfg |-> NoConfig, sock |-> TRUE, bound |-> p, sa |-> p, i |-> 1,
     tried |-> << >>, err |-> Nil, conn |-> TRUE]

\* the values rand.Uint32() gives the counter: small, and about to wrap
SeqInits == {U32(Half - 1, Half - 2)}

ConnInit(seqs, pids) ==
    /\ seq \in seqs
    /\ s0 = seq
    /\ closeReturned = FALSE
    /\ pid \in pids
    /\ closed = FALSE
    /\ rxq = << >>
    /\ sent = << >>
    /\ sockopts = {}
    /\ pc = [t \in Threads |-> "idle"]
    /\ loc = [t \in Threads |-> NoLoc]
    /\ res = [t \in Threads |-> NoRes]
    /\ calls = 0
    /\ delivered = 0
    /\ assigned = << >>
    /\ rdl = NoDeadline

NoCall == [op |-> "none", args |-> << >>, out |-> Nil, done |-> FALSE]

Init ==
    /\ ConnInit(SeqInits, {1})
    /\ dial = Dialed(pid)
    /\ fcall = NoCall

\* the messages the threads send: the zero message, and one that carries
\* its own sequence number
SendInputs == {ZeroMessage, Msg(0, 0, HeaderFlagsRequest, U32(0, 7), 0, << >>)}

ExecuteInputs == {Msg(0, 0, HeaderFlagsRequest + HeaderFlagsAcknowledge, U32Zero, 0, << >>)}

\* what the kernel sends in answer to request s: an acknowledgement or an
\* error
KernelReplies(s) ==
    {<<Msg(20, HeaderTypeError, 0, s.Sequence, s.PID, <<0, 0, 0, 0>>)>>,
     <<Msg(20, HeaderTypeError, 0, s.Sequence, s.PID, <<254, 255, 255, 255>>)>>}

KernelDatagrams == UNION {KernelReplies(sent[i]) : i \in 1..Len(sent)}

Next ==
    \/ \E t \in Threads, m \in SendInputs : SendCall(t, m, "Send")
    \/ \E t \in Threads, m \in ExecuteInputs : SendCall(t, m, "Execute")
    \/ \E t \in Threads : SendOS(t)
    \/ \E t \in Threads : RecvCall(t)
    \/ \E t \in Threads : RecvEnter(t)
    \/ \E t \in Threads : PeekDone(t)
    \/ \E t \in Threads : ReadDone(t)
    \/ \E d \in KernelDatagrams : Deliver(d, MaxDeliver)

Spec == Init /\ [][Next]_vars

(***************************************************************************)
(* The life cycle model: two threads use and close one connection.         *)
(***************************************************************************)
\* the zero message, and one whose length cannot be marshalled
CloseSendInputs == {ZeroMessage, Msg(3, 0, 0, U32Zero, 0, << >>)}

OptionInputs == {"ExtendedAcknowledge", "NoSuchOption"}

\* a multicast notification
Notification == <<Msg(16, 16, 0, U32Zero, 0, << >>)>>

NextClose ==
    \/ \E t \in Threads : CloseCall(t)
    \/ \E t \in Threads, m \in CloseSendInputs : SendCall(t, m, "Send")
    \/ \E t \in Threads : SendOS(t)
    \/ \E t \in Threads : RecvCall(t)
    \/ \E t \in Threads : RecvEnter(t)
    \/ \E t \in Threads : PeekDone(t)
    \/ \E t \in Threads : ReadDone(t)
    \/ \E t \in Threads, o \in OptionInputs : SetOptionCall(t, o)
    \/ \E t \in Threads : SyscallConnCall(t)
    \/ Deliver(Notification, MaxNotify)

SpecClose == Init /\ [][NextClose]_vars

\* the threads run: a thread inside Receive keeps taking its steps
ReceiveSteps(t) == RecvEnter(t) \/ PeekDone(t) \/ ReadDone(t)

SpecCloseFair == SpecClose /\ \A t \in Threads : WF_vars(ReceiveSteps(t))

(***************************************************************************)
(* The staged model: one thread receives, and each back-end read yields    *)
(* the next datagram of a staged stream.                                   *)
(***************************************************************************)
Frag == Msg(0, 16, HeaderFlagsMulti, U32Zero, 0, << >>)
Done == Msg(0, HeaderTypeDone, HeaderFlagsMulti, U32Zero, 0, << >>)
Plain == Msg(0, 16, 0, U32Zero, 0, << >>)
Ack == Msg(20, HeaderTypeError, 0, U32(0, 1), 1, <<0, 0, 0, 0>>)
\* error code -2
ErrNoEnt == Msg(20, HeaderTypeError, 0, U32(0, 1), 1, <<254, 255, 255, 255>>)
\* error code -4, in a multi-part message
ErrIntrMulti == Msg(0, HeaderTypeError, HeaderFlagsMulti, U32Zero, 0, <<252, 255, 255, 255>>)
\* error code +5
ErrPositive == Msg(20, HeaderTypeError, 0, U32(0, 1), 1, <<5, 0, 0, 0>>)
\* an error message too short to hold a code
ErrShort == Msg(20, HeaderTypeError, 0, U32Zero, 0, <<1>>)

\* a read that yields no message: a datagram of no bytes
NoMessages == << >>

StagedDatagrams ==
    {NoMessages, <<Frag>>, <<Done>>, <<Plain>>, <<Ack>>, <<ErrNoEnt>>, <<ErrIntrMulti>>,
     <<ErrPositive>>, <<ErrShort>>,
     <<Frag, Frag>>, <<Frag, Done>>, <<Plain, Plain>>, <<Frag, ErrNoEnt>>,
     <<ErrIntrMulti, Frag>>, <<Ack, ErrShort>>, <<Done, Frag>>}

\* the messages of datagram d, each but the error messages given a payload
\* that tells its read k and its place in the read
Stamp(d, k) ==
    [j \in 1..Len(d) |->
        IF d[j].Type = HeaderTypeError THEN d[j] ELSE [d[j] EXCEPT !.Data = <<k, j>>]]

\* the back-end read the waiting thread t is in yields staged datagram d
Stage(t, d) ==
    /\ pc[t] = "peekw"
    /\ rxq = << >>
    /\ Deliver(Stamp(d, delivered + 1), MaxReads)

NextRecv ==
    \/ RecvCall("t1")
    \/ RecvEnter("t1")
    \/ PeekDone("t1")
    \/ ReadDone("t1")
    \/ \E d \in StagedDatagrams : Stage("t1", d)

SpecRecv == Init /\ [][NextRecv]_vars

(***************************************************************************)
(* The sending model: one thread sends messages of every shape.            *)
(***************************************************************************)
SendShapes ==
    {Msg(l, 16, HeaderFlagsRequest, s, p, d) :
        l \in {0, 24}, s \in {U32Zero, U32(0, 7)}, p \in {0, 5},
        d \in {<< >>, <<1, 2, 3, 4, 5>>}}

InitSend ==
    /\ ConnInit({U32Zero, U32(Half - 1, Half - 1)}, {0, 1})
    /\ dial = Dialed(pid)
    /\ fcall = NoCall

NextSend ==
    \/ \E m \in SendShapes : SendCall("t1", m, "Send")
    \/ SendOS("t1")

SpecSend == InitSend /\ [][NextSend]_vars

(***************************************************************************)
(* Validate, applied to a request and a list of replies.                   *)
(***************************************************************************)
\* headers with sequence and PID in 0..2
ValidateHeaders == {Msg(0, 0, 0, U32(0, s), p, << >>) : s \in 0..2, p \in 0..2}

RECURSIVE SeqsUpTo(_, _)
\* the sequences over S of length at most n
SeqsUpTo(S, n) ==
    IF n = 0 THEN {<< >>}
    ELSE LET shorter == SeqsUpTo(S, n - 1)
         IN  shorter \cup {Append(q, x) : q \in shorter, x \in S}

InitValidate ==
    /\ ConnInit({U32Zero}, {1})
    /\ dial = Dialed(pid)
    /\ \E request \in ValidateHeaders, replies \in SeqsUpTo(ValidateHeaders, MaxReplies) :
          fcall = [op |-> "Validate", args |-> <<request, replies>>, out |-> Nil, done |-> FALSE]

ValidateCall ==
    /\ fcall.op = "Validate"
    /\ ~fcall.done
    /\ fcall' = [fcall EXCEPT !.out = Validate(fcall.args[1], fcall.args[2]), !.done = TRUE]
    /\ UNCHANGED connVars

NextValidate == ValidateCall

SpecValidate == InitValidate /\ [][NextValidate]_vars

(***************************************************************************)
(* The two-receiver model: two threads receive and send on one connection  *)
(* while the kernel delivers datagrams of different sizes.                 *)
(***************************************************************************)
\* a datagram of one message, smaller than the first buffer
SmallDatagram == <<Msg(20, 16, 0, U32Zero, 0, <<1>>)>>

\* a datagram of two messages, larger than the first buffer
BigDatagram == <<Msg(20, 16, 0, U32Zero, 0, <<2>>), Msg(20, 16, 0, U32Zero, 0, <<3>>)>>

TearDatagrams == {SmallDatagram, BigDatagram}

NextTear ==
    \/ \E t \in Threads : RecvCall(t)
    \/ \E t \in Threads : RecvEnter(t)
    \/ \E t \in Threads : PeekDone(t)
    \/ \E t \in Threads : ReadDone(t)
    \/ \E t \in Threads : SendCall(t, ZeroMessage, "Send")
    \/ \E t \in Threads : SendOS(t)
    \/ \E d \in TearDatagrams : Deliver(d, MaxDatagrams)

SpecTear == Init /\ [][NextTear]_vars

(***************************************************************************)
(* The transaction model: two threads call Execute on one connection, and  *)
(* the kernel answers the requests in the order they were sent.            *)
(***************************************************************************)
\* the kernel answers the oldest request not yet answered
KernelAnswers ==
    /\ delivered < Len(sent)
    /\ \E d \in KernelReplies(sent[delivered + 1]) : Deliver(d, Len(sent))

NextExecute ==
    \/ \E t \in Threads, m \in ExecuteInputs : SendCall(t, m, "Execute")
    \/ \E t \in Threads : SendOS(t)
    \/ \E t \in Threads : RecvEnter(t)
    \/ \E t \in Threads : PeekDone(t)
    \/ \E t \in Threads : ReadDone(t)
    \/ KernelAnswers

SpecExecute == Init /\ [][NextExecute]_vars

(***************************************************************************)
(* The deadline model: one thread sets read deadlines and receives, while  *)
(* time passes.  A deadline is "none", "future" or "past": rdl.asked is    *)
(* where the deadline the caller last set stands now, and rdl.at where the *)
(* deadline the socket holds stands now.                                   *)
(***************************************************************************)
Deadlines == {"none", "future", "past"}

\* the threads of T that wait in the socket with nothing to read
Blocked(T) == {u \in T : pc[u] \in {"peekw", "readw"} /\ rxq = << >>}

\* the deadline the socket holds has passed: the readers it blocks are woken
Expire(T) == [u \in Threads |-> IF u \in T THEN [loc[u] EXCEPT !.timedOut = TRUE] ELSE loc[u]]

\* Conn.SetReadDeadline(d)
SetReadDeadlineCall(t, d) ==
    /\ dial.conn
    /\ pc[t] = "idle"
    /\ calls < MaxCalls
    /\ calls' = calls + 1
    /\ LET e == sockEnter(closed)
           at == connSetReadDeadline(rdl.at, d)
       IN  /\ rdl' = IF e = Nil THEN [asked |-> d, at |-> at] ELSE rdl
           /\ loc' = IF e = Nil /\ at = "past" THEN Expire(Blocked(Threads)) ELSE loc
           /\ res' = [res EXCEPT ![t] = [NoRes EXCEPT !.op = "SetReadDeadline", !.arg = d,
                                                      !.err = e,
                                                      !.afterClose = closeReturned]]
    /\ UNCHANGED <<seq, pid, closed, rxq, sent, sockopts, pc, delivered, s0, closeReturned, assigned, fcall, dial>>

\* time passes the deadline that was set
Tick ==
    /\ rdl.asked = "future"
    /\ rdl' = [asked |-> "past", at |-> IF rdl.at = "future" THEN "past" ELSE rdl.at]
    /\ loc' = IF rdl.at = "future" THEN Expire(Blocked(Threads)) ELSE loc
    /\ UNCHANGED <<seq, pid, closed, rxq, sent, sockopts, pc, res, calls, delivered, s0, closeReturned, assigned, fcall, dial>>

\* what arrives meanwhile: a fragment of a dump, or a notification
DeadlineDatagrams == {<<Frag>>, Notification}

NextDeadline ==
    \/ \E d \in Deadlines : SetReadDeadlineCall("t1", d)
    \/ Tick
    \/ RecvCall("t1")
    \/ \E m \in ExecuteInputs : SendCall("t1", m, "Execute")
    \/ SendOS("t1")
    \/ RecvEnter("t1")
    \/ PeekDone("t1")
    \/ ReadDone("t1")
    \/ \E d \in DeadlineDatagrams : Deliver(d, MaxDeliver)

SpecDeadline == Init /\ [][NextDeadline]_vars

\* the thread runs: inside Receive it keeps taking its steps
SpecDeadlineFair == SpecDeadline /\ WF_vars(ReceiveSteps("t1"))

(***************************************************************************)
(* The dial model: Dial opens a socket, binds it, reads its address back   *)
(* and, when asked, sets the strict options; one thread then uses the      *)
(* connection Dial returned.  dial.pc is the step Dial is at, dial.sock    *)
(* whether the socket was opened, dial.bound the PID the kernel bound it   *)
(* to, dial.sa the PID read back, dial.i the strict option that is next,   *)
(* dial.tried the errors of the options set so far, and dial.conn whether  *)
(* Dial returned a connection.                                             *)
(***************************************************************************)
\* Config.Strict, and Config.PID: 0 lets the kernel choose
Configs == [Strict : BOOLEAN, PID : {0, 7}]

\* the PIDs the kernel chooses
KernelPIDs == {1, 2}

errSocket == Err("socket", 0)

\* the errors of a setsockopt the kernel refuses
SetsockoptErrors == {errENOPROTOOPT, errEINVAL}

\* the socket after a failed Bind, which newConn leaves open
bindError_Leak(c) == c

\* newConn after a failed Bind: s.Close()
bindError(c) == sockClose(c).closed

\* newConn after a failed Getsockname: s.Close()
getsocknameError(c) == sockClose(c).closed

\* newConn after a failed SetOption: c.Close()
strictError(c) == connClose(c).closed

\* strict options of which the second is left out
strictOptions_OnlyExtendedAck == <<"ExtendedAcknowledge">>

\* the options newConn sets for Config.Strict, in this order
strictOptions == <<"ExtendedAcknowledge", "GetStrictCheck">>

\* a newConn that returns the PID of its Config
newConnPid_Configured(cfg, sa) == cfg.PID

\* the PID newConn returns: the one of the address read back
newConnPid(cfg, sa) == sa

DialFails(e) == [dial EXCEPT !.pc = "done", !.err = e, !.conn = FALSE]

\* dial: socket.Socket
DialSocket ==
    /\ dial.pc = "socket"
    /\ \E ok \in BOOLEAN :
          dial' = IF ok THEN [dial EXCEPT !.pc = "bind", !.sock = TRUE] ELSE DialFails(errSocket)
    /\ UNCHANGED <<seq, pid, closed, rxq, sent, sockopts, pc, loc, res, calls, delivered, s0, closeReturned, assigned, fcall, rdl>>

\* newConn: s.Bind(addr), with Config.PID in addr
DialBind ==
    /\ dial.pc = "bind"
    /\ \/ /\ \E p \in (IF dial.cfg.PID = 0 THEN KernelPIDs ELSE {dial.cfg.PID}) :
                dial' = [dial EXCEPT !.pc = "getsockname", !.bound = p]
          /\ UNCHANGED closed
       \/ /\ dial' = DialFails(errBind)
          /\ closed' = bindError(closed)
    /\ UNCHANGED <<seq, pid, rxq, sent, sockopts, pc, loc, res, calls, delivered, s0, closeReturned, assigned, fcall, rdl>>

\* newConn: s.Getsockname()
DialGetsockname ==
    /\ dial.pc = "getsockname"
    /\ \/ /\ dial' = [dial EXCEPT !.pc = "strict", !.sa = dial.bound]
          /\ UNCHANGED closed
       \/ /\ dial' = DialFails(errGetsockname)
          /\ closed' = getsocknameError(closed)
    /\ UNCHANGED <<seq, pid, rxq, sent, sockopts, pc, loc, res, calls, delivered, s0, closeReturned, assigned, fcall, rdl>>

\* newConn: c.SetOption(o, true) for the next of the strict options
DialStrict ==
    /\ dial.pc = "strict"
    /\ dial.cfg.Strict
    /\ dial.i <= Len(strictOptions)
    /\ LET o == strictOptions[dial.i]
       IN  \E k \in {Nil} \cup SetsockoptErrors :
              LET e == IF connSetOption(o, closed) # Nil THEN connSetOption(o, closed) ELSE k
              IN  IF e # Nil
                  THEN /\ dial' = [DialFails(e) EXCEPT !.tried = Append(dial.tried, e)]
                       /\ closed' = strictError(closed)
                       /\ UNCHANGED sockopts
                  ELSE /\ dial' = [dial EXCEPT !.i = dial.i + 1,
                                               !.tried = Append(dial.tried, Nil)]
                       /\ sockopts' = sockopts \cup {o}
                       /\ UNCHANGED closed
    /\ UNCHANGED <<seq, pid, rxq, sent, pc, loc, res, calls, delivered, s0, closeReturned, assigned, fcall, rdl>>

\* newConn returns the connection and its PID, and Dial makes the Conn of them
DialReturn ==
    /\ dial.pc = "strict"
    /\ ~dial.cfg.Strict \/ dial.i > Len(strictOptions)
    /\ dial' = [dial EXCEPT !.pc = "done", !.conn = TRUE]
    /\ pid' = newConnPid(dial.cfg, dial.sa)
    /\ UNCHANGED <<seq, closed, rxq, sent, sockopts, pc, loc, res, calls, delivered, s0, closeReturned, assigned, fcall, rdl>>

\* Dial(family, cfg) is called
Dialing(cfg) ==
    [pc |-> "socket", cfg |-> cfg, sock |-> FALSE, bound |-> 0, sa |-> 0, i |-> 1,
     tried |-> << >>, err |-> Nil, conn |-> FALSE]

InitDial ==
    /\ ConnInit(SeqInits, {0})
    /\ fcall = NoCall
    /\ \E cfg \in Configs : dial = Dialing(cfg)

\* a message that carries its own PID
OwnPID == Msg(0, 0, HeaderFlagsRequest, U32Zero, 5, << >>)

\* a message of another socket's PID
ForeignPID == <<Msg(16, 16, 0, U32Zero, 9, << >>)>>

NextDial ==
    \/ DialSocket
    \/ DialBind
    \/ DialGetsockname
    \/ DialStrict
    \/ DialReturn
    \/ \E m \in {ZeroMessage, OwnPID} : SendCall("t1", m, "Send")
    \/ SendOS("t1")
    \/ RecvCall("t1")
    \/ RecvEnter("t1")
    \/ PeekDone("t1")
    \/ ReadDone("t1")
    \/ Deliver(ForeignPID, MaxDeliver)

SpecDial == InitDial /\ [][NextDial]_vars

(***************************************************************************)
(* Bytes.  A byte slice is a sequence over 0..255; the integers of a       *)
(* message are written in the byte order of the host, "little" or "big".   *)
(***************************************************************************)
ByteOrders == {"little", "big"}

Zeros(n) == [i \in 1..n |-> 0]

\* make([]byte, n)
make(n) == Zeros(n)

\* copy(dst, src): dst with its first min(len(dst), len(src)) bytes from src
copy(dst, src) == [i \in 1..Len(dst) |-> IF i <= Len(src) THEN src[i] ELSE dst[i]]

Reverse(b) == [i \in 1..Len(b) |-> b[Len(b) + 1 - i]]

\* the bytes of an integer in memory, lowest first, on a host of this order
InMemory(b, order) == IF order = "little" THEN b ELSE Reverse(b)

\* PutUint16(b, v): the two bytes written
PutUint16(v, order) == InMemory(<<v % 256, v \div 256>>, order)

\* PutUint32(b, v): the four bytes written, v in two halves
PutUint32(v, order) ==
    InMemory(<<v[2] % 256, v[2] \div 256, v[1] % 256, v[1] \div 256>>, order)

\* Uint16(b)
Uint16(b, order) == LET l == InMemory(b, order) IN l[1] + 256 * l[2]

\* Uint32(b), in two halves
Uint32(b, order) ==
    LET l == InMemory(b, order) IN U32(l[3] + 256 * l[4], l[1] + 256 * l[2])

\* uint32(n) of a natural n below 2^31, and back
ToU32(n) == U32(n \div Half, n % Half)

FromU32(x) == x[1] * Half + x[2]

(***************************************************************************)
(* The message codec.                                                      *)
(***************************************************************************)
errShortMessage == Err("not enough data to create a netlink message", 0)
errUnalignedMessage == Err("input data is not properly aligned", 0)

\* Message.MarshalBinary: the bytes and the error
MessageMarshalBinary(m, order) ==
    LET ml == nlmsgAlign(m.Length)
    IN  IF ml < nlmsgHeaderLen \/ ml # m.Length
        THEN [b |-> << >>, err |-> errIncorrectMessageLength]
        ELSE [b |-> PutUint32(ToU32(m.Length), order) \o PutUint16(m.Type, order)
                      \o PutUint16(m.Flags, order) \o PutUint32(m.Sequence, order)
                      \o PutUint32(ToU32(m.PID), order)
                      \o copy(make(ml - nlmsgHeaderLen), m.Data),
              err |-> Nil]

\* b[lo:hi] as a slice that shares the memory of b: the bytes lo+1..hi of it
SliceOf(lo, hi) == [lo |-> lo, hi |-> hi]

\* the bytes a slice of memory b holds now
BytesOf(b, sl) == SubSeq(b, sl.lo + 1, sl.hi)

\* a Message.UnmarshalBinary that trusts the length field of its input
MessageUnmarshalBinary_TrustLength(b, order) ==
    IF Len(b) < nlmsgHeaderLen THEN [m |-> ZeroMessage, err |-> errShortMessage]
    ELSE IF Len(b) # nlmsgAlign(Len(b)) THEN [m |-> ZeroMessage, err |-> errUnalignedMessage]
    ELSE [m |-> Msg(Len(b), Uint16(SubSeq(b, 5, 6), order), Uint16(SubSeq(b, 7, 8), order),
                    Uint32(SubSeq(b, 9, 12), order),
                    FromU32(Uint32(SubSeq(b, 13, 16), order)),
                    SliceOf(nlmsgHeaderLen, Len(b))),
          err |-> Nil]

\* Message.UnmarshalBinary(b): the message and the error; the message's Data
\* is the slice b[16:] of the input
MessageUnmarshalBinary(b, order) ==
    IF Len(b) < nlmsgHeaderLen THEN [m |-> ZeroMessage, err |-> errShortMessage]
    ELSE IF Len(b) # nlmsgAlign(Len(b)) THEN [m |-> ZeroMessage, err |-> errUnalignedMessage]
    ELSE IF Uint32(SubSeq(b, 1, 4), order) # ToU32(Len(b))
    THEN [m |-> ZeroMessage, err |-> errShortMessage]
    ELSE [m |-> Msg(Len(b), Uint16(SubSeq(b, 5, 6), order), Uint16(SubSeq(b, 7, 8), order),
                    Uint32(SubSeq(b, 9, 12), order),
                    FromU32(Uint32(SubSeq(b, 13, 16), order)),
                    SliceOf(nlmsgHeaderLen, Len(b))),
          err |-> Nil]

(***************************************************************************)
(* The message codec model: a message is marshalled and the bytes          *)
(* unmarshalled again, or a buffer of the caller's is unmarshalled; the    *)
(* caller then writes to the buffer.  fcall.out.b is the buffer as it is   *)
(* now, fcall.out.m the unmarshalled message, and fcall.out.data the       *)
(* payload it had when UnmarshalBinary returned.                           *)
(***************************************************************************)
MaxWrites == 1

CodecPayloads == {<< >>, <<1>>, <<1, 2, 3>>, <<1, 2, 3, 4>>, <<1, 2, 3, 4, 5>>}

MessageInputs ==
    {Msg(l, t, 1, s, 7, d) :
        l \in {0, 15, 16, 17, 20, 24}, t \in {0, 258}, s \in {U32Zero, U32(1, 513)},
        d \in CodecPayloads}

\* the buffers a caller hands to UnmarshalBinary: n bytes that begin with the
\* length field l
BufferOf(l, n, order) ==
    SubSeq(PutUint32(l, order) \o <<1, 2, 3, 0, 4, 0, 0, 5, 6, 0, 0, 0>> \o <<9, 8, 7, 6, 5, 4, 3, 2>>,
           1, n)

BufferLengths == {0, 3, 15, 16, 17, 18, 20, 24}

LengthFields == {ToU32(n) : n \in {0, 12, 16, 20, 24, 28}} \cup {U32(1, 16), U32(Half - 1, 20)}

NoCodec == [pc |-> "end", b |-> << >>, err |-> Nil, m |-> ZeroMessage, uerr |-> Nil,
            data |-> << >>, writes |-> 0]

InitMessage ==
    /\ ConnInit({U32Zero}, {1})
    /\ dial = Dialed(pid)
    /\ \/ \E m \in MessageInputs, order \in ByteOrders :
             fcall = [op |-> "Marshal", args |-> [m |-> m, order |-> order],
                      out |-> [NoCodec EXCEPT !.pc = "marshal"], done |-> FALSE]
       \/ \E l \in LengthFields, n \in BufferLengths, order \in ByteOrders :
             fcall = [op |-> "Unmarshal", args |-> [l |-> l, n |-> n, order |-> order],
                      out |-> [NoCodec EXCEPT !.pc = "unmarshal", !.b = BufferOf(l, n, order)],
                      done |-> FALSE]

\* b, err := m.MarshalBinary()
MarshalCall ==
    /\ fcall.op = "Marshal"
    /\ fcall.out.pc = "marshal"
    /\ LET r == MessageMarshalBinary(fcall.args.m, fcall.args.order)
       IN  fcall' = [fcall EXCEPT !.out.b = r.b, !.out.err = r.err,
                                  !.out.pc = IF r.err = Nil THEN "unmarshal" ELSE "end",
                                  !.done = r.err # Nil]
    /\ UNCHANGED connVars

\* err := (&m).UnmarshalBinary(b)
UnmarshalCall ==
    /\ fcall.op \in {"Marshal", "Unmarshal"}
    /\ fcall.out.pc = "unmarshal"
    /\ LET r == MessageUnmarshalBinary(fcall.out.b, fcall.args.order)
       IN  fcall' = [fcall EXCEPT !.out.m = r.m, !.out.uerr = r.err, !.out.pc = "end",
                                  !.out.data = IF r.err = Nil
                                               THEN BytesOf(fcall.out.b, r.m.Data)
                                               ELSE << >>,
                                  !.done = TRUE]
    /\ UNCHANGED connVars

\* the offsets and the bytes the caller writes
WriteOffsets == {1, 5, 17, 20}

WriteBytes == {0, 255}

\* b[i-1] = v, after UnmarshalBinary has returned
ModifyInput(i, v) ==
    /\ fcall.op \in {"Marshal", "Unmarshal"}
    /\ fcall.out.pc = "end"
    /\ fcall.out.writes < MaxWrites
    /\ i <= Len(fcall.out.b)
    /\ fcall' = [fcall EXCEPT !.out.b[i] = v, !.out.writes = fcall.out.writes + 1]
    /\ UNCHANGED connVars

NextMessage ==
    \/ MarshalCall
    \/ UnmarshalCall
    \/ \E i \in WriteOffsets, v \in WriteBytes : ModifyInput(i, v)

SpecMessage == InitMessage /\ [][NextMessage]_vars

(***************************************************************************)
(* The attribute codec.                                                    *)
(***************************************************************************)
nlaHeaderLen == 4

\* the smallest multiple of 4 that is >= n
nlaAlign(n) == ((n + 3) \div 4) * 4

\* the largest uint16
MaxUint16 == 65535

\* uint16(n)
ToU16(n) == n % (MaxUint16 + 1)

NLA_F_NESTED == 32768
NLA_F_NET_BYTEORDER == 16384

errInvalidAttribute == Err("invalid attribute; length too short or too large", 0)
errInvalidAttributeFlags == Err("invalid attribute; type cannot have both nested and net byte order flags", 0)

\* Attribute{Length: length, Type: type, Data: data}
Attr(length, type, data) == [Length |-> length, Type |-> type, Data |-> data]

\* Attribute.IsNested
IsNested(a) == HasFlag(a.Type, NLA_F_NESTED)

\* Attribute.IsNetByteOrder
IsNetByteOrder(a) == HasFlag(a.Type, NLA_F_NET_BYTEORDER)

\* Attribute.MarshalBinary: the bytes and the error
AttributeMarshalBinary(a, order) ==
    IF a.Length < nlaHeaderLen
    THEN [b |-> << >>, err |-> errInvalidAttribute]
    ELSE [b |-> PutUint16(a.Length, order) \o PutUint16(a.Type, order)
                  \o copy(make(nlaAlign(a.Length) - nlaHeaderLen), a.Data),
          err |-> Nil]

\* an Attribute.UnmarshalBinary that takes the padding into the data
AttributeUnmarshalBinary_Padded(b, order) ==
    IF Len(b) < nlaHeaderLen THEN [a |-> Attr(0, 0, << >>), err |-> errInvalidAttribute]
    ELSE LET length == Uint16(SubSeq(b, 1, 2), order)
             type == Uint16(SubSeq(b, 3, 4), order)
         IN  IF nlaAlign(length) > Len(b)
             THEN [a |-> Attr(length, type, << >>), err |-> errInvalidAttribute]
             ELSE IF length = 0 THEN [a |-> Attr(length, type, << >>), err |-> Nil]
             ELSE IF length < 4
             THEN [a |-> Attr(length, type, << >>), err |-> errInvalidAttribute]
             ELSE [a |-> Attr(length, type, SubSeq(b, 5, nlaAlign(length))), err |-> Nil]

\* an Attribute.UnmarshalBinary that does not compare the length with the
\* input
AttributeUnmarshalBinary_Unchecked(b, order) ==
    IF Len(b) < nlaHeaderLen THEN [a |-> Attr(0, 0, << >>), err |-> errInvalidAttribute]
    ELSE LET length == Uint16(SubSeq(b, 1, 2), order)
             type == Uint16(SubSeq(b, 3, 4), order)
         IN  IF length = 0 THEN [a |-> Attr(length, type, << >>), err |-> Nil]
             ELSE IF length < 4
             THEN [a |-> Attr(length, type, << >>), err |-> errInvalidAttribute]
             ELSE IF length > Len(b)
             THEN [a |-> Attr(length, type, << >>), err |-> errPanic]
             ELSE [a |-> Attr(length, type, SubSeq(b, 5, length)), err |-> Nil]

\* Attribute.UnmarshalBinary(b): the attribute and the error; the data is a
\* copy of b[4:a.Length], a slice expression that panics out of bounds
AttributeUnmarshalBinary(b, order) ==
    IF Len(b) < nlaHeaderLen THEN [a |-> Attr(0, 0, << >>), err |-> errInvalidAttribute]
    ELSE LET length == Uint16(SubSeq(b, 1, 2), order)
             type == Uint16(SubSeq(b, 3, 4), order)
         IN  IF nlaAlign(length) > Len(b)
             THEN [a |-> Attr(length, type, << >>), err |-> errInvalidAttribute]
             ELSE IF length = 0 THEN [a |-> Attr(length, type, << >>), err |-> Nil]
             ELSE IF length < 4
             THEN [a |-> Attr(length, type, << >>), err |-> errInvalidAttribute]
             ELSE IF length > Len(b)
             THEN [a |-> Attr(length, type, << >>), err |-> errPanic]
             ELSE [a |-> Attr(length, type, SubSeq(b, 5, length)), err |-> Nil]

RECURSIVE MarshalAttributesFrom(_, _, _, _)
\* the loop of MarshalAttributes from attribute k on, b being the bytes so far
MarshalAttributesFrom(attrs, k, b, order) ==
    IF k > Len(attrs) THEN [b |-> b, err |-> Nil]
    ELSE LET a == IF attrs[k].Length = 0
                  THEN [attrs[k] EXCEPT !.Length = ToU16(nlaHeaderLen + Len(attrs[k].Data))]
                  ELSE attrs[k]
             ab == AttributeMarshalBinary(a, order)
         IN  IF ab.err # Nil THEN [b |-> << >>, err |-> ab.err]
             ELSE MarshalAttributesFrom(attrs, k + 1, b \o ab.b, order)

\* MarshalAttributes(attrs)
MarshalAttributes(attrs, order) == MarshalAttributesFrom(attrs, 1, << >>, order)

\* the state of the loop of UnmarshalAttributes before its first iteration
UnmarshalStart == [i |-> 0, attrs |-> << >>, err |-> Nil, done |-> FALSE]

\* one iteration of the loop of UnmarshalAttributes(b) in state st: the
\* break at the end of the input, the return of an error, the skip of an
\* attribute of length 0, or the next attribute
UnmarshalAttributesStep(b, st, order) ==
    IF st.i > Len(b) THEN [st EXCEPT !.attrs = << >>, !.err = errPanic, !.done = TRUE]
    ELSE IF Len(b) - st.i = 0 THEN [st EXCEPT !.done = TRUE]
    ELSE LET r == AttributeUnmarshalBinary(SubSeq(b, st.i + 1, Len(b)), order)
         IN  IF r.err # Nil THEN [st EXCEPT !.attrs = << >>, !.err = r.err, !.done = TRUE]
             ELSE IF r.a.Length = 0 THEN [st EXCEPT !.i = st.i + nlaHeaderLen]
             ELSE [st EXCEPT !.i = st.i + nlaAlign(r.a.Length),
                             !.attrs = Append(st.attrs, r.a)]

(***************************************************************************)
(* The attribute codec model: a list of attributes is marshalled and the   *)
(* bytes unmarshalled again, or a buffer of the caller's is unmarshalled.  *)
(* fcall.out.st is the state of the loop of UnmarshalAttributes, and       *)
(* fcall.out.prev the place in the buffer where its last iteration began.  *)
(***************************************************************************)
MaxAttrs == 2

\* 65536 bytes, and 65532 bytes
BigData == Zeros(MaxUint16 + 1)

WrapData == Zeros(MaxUint16 + 1 - nlaHeaderLen)

\* attributes with the length left to MarshalAttributes or set by the
\* caller, without and with flags, with data of 0 to 5 bytes
SmallAttrs ==
    {Attr(0, 1, << >>), Attr(0, 2, <<1>>), Attr(0, 3, <<1, 2, 3, 4>>), Attr(5, 1, <<1>>),
     Attr(0, NLA_F_NESTED + 1, <<1, 2>>), Attr(0, NLA_F_NET_BYTEORDER + 2, <<1, 2, 3>>),
     Attr(0, NLA_F_NESTED + NLA_F_NET_BYTEORDER + 3, << >>),
     Attr(3, 1, << >>), Attr(5, 1, <<1, 2, 3, 4>>), Attr(8, 1, <<1>>)}

AttrLists ==
    SeqsUpTo(SmallAttrs, MaxAttrs)
      \cup {<<Attr(0, 1, BigData)>>, <<Attr(0, 1, WrapData)>>,
            <<Attr(0, 2, <<1>>), Attr(0, 1, BigData)>>}

\* the first n bytes of an attribute of length l
Chunk(l, n, order) ==
    SubSeq(PutUint16(l, order) \o PutUint16(1, order) \o <<9, 8, 7, 6>>, 1, n)

ChunkLengths == {0, 3, 4, 5, 8}

ChunkSizes == {2, 4, 8}

RECURSIVE Concat(_)
Concat(q) == IF q = << >> THEN << >> ELSE Head(q) \o Concat(Tail(q))

\* the buffers a caller hands to UnmarshalAttributes
AttrBuffers(order) ==
    {Concat(q) : q \in SeqsUpTo({Chunk(l, n, order) : l \in ChunkLengths, n \in ChunkSizes},
                                MaxAttrs)}

NoAttrs == [pc |-> "end", b |-> << >>, err |-> Nil, st |-> UnmarshalStart, prev |-> 0]

InitAttributes ==
    /\ ConnInit({U32Zero}, {1})
    /\ dial = Dialed(pid)
    /\ \/ \E attrs \in AttrLists, order \in ByteOrders :
             fcall = [op |-> "MarshalAttributes", args |-> [attrs |-> attrs, order |-> order],
                      out |-> [NoAttrs EXCEPT !.pc = "marshal"], done |-> FALSE]
       \/ \E order \in ByteOrders : \E b \in AttrBuffers(order) :
             fcall = [op |-> "UnmarshalAttributes", args |-> [b |-> b, order |-> order],
                      out |-> [NoAttrs EXCEPT !.pc = "unmarshal", !.b = b], done |-> FALSE]

\* b, err := MarshalAttributes(attrs)
MarshalAttributesCall ==
    /\ fcall.op = "MarshalAttributes"
    /\ fcall.out.pc = "marshal"
    /\ LET r == MarshalAttributes(fcall.args.attrs, fcall.args.order)
       IN  fcall' = [fcall EXCEPT !.out.b = r.b, !.out.err = r.err,
                                  !.out.pc = IF r.err = Nil THEN "unmarshal" ELSE "end",
                                  !.done = r.err # Nil]
    /\ UNCHANGED connVars

\* one iteration of the loop of UnmarshalAttributes(b)
UnmarshalAttributesIter ==
    /\ fcall.op \in {"MarshalAttributes", "UnmarshalAttributes"}
    /\ fcall.out.pc = "unmarshal"
    /\ LET st == UnmarshalAttributesStep(fcall.out.b, fcall.out.st, fcall.args.order)
       IN  fcall' = [fcall EXCEPT !.out.st = st, !.out.prev = fcall.out.st.i,
                                  !.out.pc = IF st.done THEN "end" ELSE "unmarshal",
                                  !.done = st.done]
    /\ UNCHANGED connVars

NextAttributes ==
    \/ MarshalAttributesCall
    \/ UnmarshalAttributesIter

SpecAttributes == InitAttributes /\ [][NextAttributes]_vars

\* the loop runs
SpecAttributesFair == SpecAttributes /\ WF_vars(UnmarshalAttributesIter)

(***************************************************************************)
(* Package nlenc: the integers of fixed width, put into and got from a     *)
(* byte slice in the byte order of the host.  A uint8, uint16 and the      *)
(* signed integers are integers; a uint32 is its two halves; a uint64 is   *)
(* <<high, low>>, each a uint32.                                           *)
(***************************************************************************)
IntKinds == {"Uint8", "Uint16", "Uint32", "Uint64", "Int8", "Int16", "Int32"}

\* the width in bytes of an integer of kind k
Width(k) ==
    CASE k \in {"Uint8", "Int8"} -> 1
      [] k \in {"Uint16", "Int16"} -> 2
      [] k \in {"Uint32", "Int32"} -> 4
      [] k = "Uint64" -> 8

\* the bytes of integer v of kind k, lowest first
BytesLowFirst(k, v) ==
    CASE k = "Uint8" -> <<v>>
      [] k = "Int8" -> <<v % 256>>
      [] k \in {"Uint16", "Int16"} -> PutUint16(v % Half, "little")
      [] k = "Uint32" -> PutUint32(v, "little")
      [] k = "Int32" -> PutUint32(U32((v \div Half) % Half, v % Half), "little")
      [] k = "Uint64" -> PutUint32(v[2], "little") \o PutUint32(v[1], "little")

\* two's complement: the signed reading of the natural n of w bytes
Signed(n, top) == IF n >= top \div 2 THEN n - top ELSE n

\* the integer of kind k that bytes l, lowest first, hold
FromLowFirst(k, l) ==
    CASE k = "Uint8" -> l[1]
      [] k = "Int8" -> Signed(l[1], 256)
      [] k = "Uint16" -> Uint16(l, "little")
      [] k = "Int16" -> Signed(Uint16(l, "little"), Half)
      [] k = "Uint32" -> Uint32(l, "little")
      [] k = "Int32" -> getInt32(l)
      [] k = "Uint64" -> <<Uint32(SubSeq(l, 5, 8), "little"), Uint32(SubSeq(l, 1, 4), "little")>>

\* the zero value of kind k
ZeroOf(k) ==
    CASE k = "Uint32" -> U32Zero
      [] k = "Uint64" -> <<U32Zero, U32Zero>>
      [] OTHER -> 0

\* a put that asks only for room enough, and writes the head of the slice
nlencPut_RoomEnough(k, b, v, order) ==
    IF Len(b) < Width(k) THEN [b |-> b, panic |-> TRUE]
    ELSE [b |-> copy(b, InMemory(BytesLowFirst(k, v), order)), panic |-> FALSE]

\* nlenc.PutUint8 .. PutInt64 (b, v): the slice after the call, and whether
\* the call panicked
nlencPut(k, b, v, order) ==
    IF Len(b) # Width(k) THEN [b |-> b, panic |-> TRUE]
    ELSE [b |-> InMemory(BytesLowFirst(k, v), order), panic |-> FALSE]

\* a get that asks only for bytes enough, and reads the head of the slice
nlencGet_BytesEnough(k, b, order) ==
    IF Len(b) < Width(k) THEN [v |-> ZeroOf(k), panic |-> TRUE]
    ELSE [v |-> FromLowFirst(k, InMemory(SubSeq(b, 1, Width(k)), order)), panic |-> FALSE]

\* nlenc.Uint8 .. Int64 (b): the value, and whether the call panicked
nlencGet(k, b, order) ==
    IF Len(b) # Width(k) THEN [v |-> ZeroOf(k), panic |-> TRUE]
    ELSE [v |-> FromLowFirst(k, InMemory(b, order)), panic |-> FALSE]

(***************************************************************************)
(* The nlenc model: an integer is put into a slice of the caller's and got *)
(* from it again, or got from a slice of the caller's.  fcall.out.b is the *)
(* slice as it is now and fcall.out.v the value got.                       *)
(***************************************************************************)
\* the integers of kind k that are tried
IntValues(k) ==
    CASE k = "Uint8" -> {0, 1, 255}
      [] k = "Int8" -> {-128, -1, 0, 127}
      [] k = "Uint16" -> {0, 258, Half - 1}
      [] k = "Int16" -> {-32768, -2, 258}
      [] k = "Uint32" -> {U32Zero, U32(258, 772), U32(Half - 1, Half - 1)}
      [] k = "Int32" -> {-2147483647, -1, 16909060}
      [] k = "Uint64" -> {<<U32Zero, U32Zero>>, <<U32(258, 772), U32(1286, 1800)>>}

\* the lengths of the caller's slice
SliceLengths == 0..9

\* a slice of n bytes that are not zero
Filled(n) == [i \in 1..n |-> 160 + i]

NoNlenc == [pc |-> "end", b |-> << >>, putPanic |-> FALSE, v |-> 0, getPanic |-> FALSE]

InitNlenc ==
    /\ ConnInit({U32Zero}, {1})
    /\ dial = Dialed(pid)
    /\ \E k \in IntKinds, n \in SliceLengths, order \in ByteOrders :
          \/ \E v \in IntValues(k) :
                fcall = [op |-> "Put", args |-> [k |-> k, v |-> v, n |-> n, order |-> order],
                         out |-> [NoNlenc EXCEPT !.pc = "put", !.b = Filled(n)],
                         done |-> FALSE]
          \/ fcall = [op |-> "Get", args |-> [k |-> k, v |-> ZeroOf(k), n |-> n, order |-> order],
                      out |-> [NoNlenc EXCEPT !.pc = "get", !.b = Filled(n)],
                      done |-> FALSE]

\* nlenc.PutX(b, v)
PutCall ==
    /\ fcall.op = "Put"
    /\ fcall.out.pc = "put"
    /\ LET r == nlencPut(fcall.args.k, fcall.out.b, fcall.args.v, fcall.args.order)
       IN  fcall' = [fcall EXCEPT !.out.b = r.b, !.out.putPanic = r.panic,
                                  !.out.pc = IF r.panic THEN "end" ELSE "get",
                                  !.done = r.panic]
    /\ UNCHANGED connVars

\* v := nlenc.X(b)
GetCall ==
    /\ fcall.op \in {"Put", "Get"}
    /\ fcall.out.pc = "get"
    /\ LET r == nlencGet(fcall.args.k, fcall.out.b, fcall.args.order)
       IN  fcall' = [fcall EXCEPT !.out.v = r.v, !.out.getPanic = r.panic,
                                  !.out.pc = "end", !.done = TRUE]
    /\ UNCHANGED connVars

NextNlenc ==
    \/ PutCall
    \/ GetCall

SpecNlenc == InitNlenc /\ [][NextNlenc]_vars

(***************************************************************************)
(* The attribute decoder.  A decoder is [b, i, a, err]: the buffer, the    *)
(* offset of the attribute that is next, the current attribute and the     *)
(* error recorded so far.                                                  *)
(***************************************************************************)
\* a scalar accessor found the data of the attribute not as wide as kind k
errUnexpectedLength(k) == Err("netlink: attribute is not of the expected length", Width(k))

\* the error a callback of the caller returns
errCallback == Err("some error", 0)

RECURSIVE available(_, _, _)
\* the validation on entry: the first error of the attributes of b from
\* offset i on
available(b, i, order) ==
    IF i >= Len(b) THEN Nil
    ELSE LET r == AttributeUnmarshalBinary(SubSeq(b, i + 1, Len(b)), order)
         IN  IF r.err # Nil THEN r.err
             ELSE IF r.a.Length < nlaHeaderLen THEN available(b, i + nlaHeaderLen, order)
             ELSE available(b, i + nlaAlign(r.a.Length), order)

\* NewAttributeDecoder(b): the decoder and the error
NewAttributeDecoder(b, order) ==
    [ad |-> [b |-> b, i |-> 0, a |-> Attr(0, 0, << >>), err |-> Nil],
     err |-> available(b, 0, order)]

\* ad.Next(): the decoder after the call, and what the call returned
AttributeDecoderNext(ad, order) ==
    IF ad.err # Nil THEN [ad |-> ad, ok |-> FALSE]
    ELSE IF ad.i >= Len(ad.b) THEN [ad |-> ad, ok |-> FALSE]
    ELSE LET r == AttributeUnmarshalBinary(SubSeq(ad.b, ad.i + 1, Len(ad.b)), order)
         IN  IF r.err # Nil THEN [ad |-> [ad EXCEPT !.err = r.err], ok |-> FALSE]
             ELSE [ad |-> [ad EXCEPT !.a = r.a,
                                     !.i = IF r.a.Length < nlaHeaderLen
                                           THEN ad.i + nlaHeaderLen
                                           ELSE ad.i + nlaAlign(r.a.Length)],
                   ok |-> TRUE]

\* a scalar accessor that does not look at the error recorded
AttributeDecoderUint_Forgetful(ad, k, order) ==
    IF Len(ad.a.Data) # Width(k)
    THEN [ad |-> [ad EXCEPT !.err = errUnexpectedLength(k)], v |-> ZeroOf(k), panic |-> FALSE]
    ELSE [ad |-> ad, v |-> nlencGet(k, ad.a.Data, order).v,
          panic |-> nlencGet(k, ad.a.Data, order).panic]

\* ad.Uint8(), ad.Uint16(), ad.Uint32(), ad.Uint64(): the decoder after the
\* call, the value returned, and whether the call panicked
AttributeDecoderUint(ad, k, order) ==
    IF ad.err # Nil THEN [ad |-> ad, v |-> ZeroOf(k), panic |-> FALSE]
    ELSE IF Len(ad.a.Data) # Width(k)
    THEN [ad |-> [ad EXCEPT !.err = errUnexpectedLength(k)], v |-> ZeroOf(k), panic |-> FALSE]
    ELSE [ad |-> ad, v |-> nlencGet(k, ad.a.Data, order).v,
          panic |-> nlencGet(k, ad.a.Data, order).panic]

\* ad.Do(fn), fn returning e: the decoder after the call, and whether fn was
\* invoked
AttributeDecoderDo(ad, e) ==
    IF ad.err # Nil THEN [ad |-> ad, invoked |-> FALSE]
    ELSE [ad |-> [ad EXCEPT !.err = e], invoked |-> TRUE]

\* ad.Err()
AttributeDecoderErr(ad) == ad.err

(***************************************************************************)
(* The decoder model: a caller makes a decoder over a buffer and calls     *)
(* Next, the scalar accessors and Do in any order, then Err.  fcall.out.ad *)
(* is the decoder, fcall.out.log what each call found and returned, and    *)
(* fcall.out.err what Err returned.                                        *)
(***************************************************************************)
MaxOps == 3

\* attributes with data of 1, 3 and 4 bytes
DecoderAttrs == {Attr(0, 1, <<7>>), Attr(0, 2, <<14, 173, 190>>), Attr(0, 3, <<1, 2, 3, 4>>)}

\* the buffers the caller decodes: attributes marshalled, and a buffer cut
\* short
DecoderBuffers(order) ==
    {MarshalAttributes(l, order).b : l \in SeqsUpTo(DecoderAttrs, MaxAttrs)}
      \cup {<<8, 0, 8, 0, 1>>}

\* the scalar accessors the caller uses
DecoderKinds == {"Uint8", "Uint16", "Uint32"}

NoDecoder ==
    [pc |-> "end", ad |-> NewAttributeDecoder(<< >>, "little").ad, newErr |-> Nil,
     log |-> << >>, err |-> Nil]

\* what the log holds of a call
Logged(op, k, before, after, v, panic, invoked, ok) ==
    [op |-> op, k |-> k, before |-> before, after |-> after, v |-> v, panic |-> panic,
     invoked |-> invoked, ok |-> ok]

InitDecoder ==
    /\ ConnInit({U32Zero}, {1})
    /\ dial = Dialed(pid)
    /\ \E order \in ByteOrders : \E b \in DecoderBuffers(order) :
          fcall = [op |-> "Decode", args |-> [b |-> b, order |-> order],
                   out |-> [NoDecoder EXCEPT !.pc = "new"], done |-> FALSE]

\* ad, err := NewAttributeDecoder(b)
NewAttributeDecoderCall ==
    /\ fcall.op = "Decode"
    /\ fcall.out.pc = "new"
    /\ LET r == NewAttributeDecoder(fcall.args.b, fcall.args.order)
       IN  fcall' = [fcall EXCEPT !.out.ad = r.ad, !.out.newErr = r.err,
                                  !.out.pc = IF r.err = Nil THEN "use" ELSE "end",
                                  !.done = r.err # Nil]
    /\ UNCHANGED connVars

\* the caller may make another call of the decoder
DecoderInUse ==
    /\ fcall.op = "Decode"
    /\ fcall.out.pc = "use"
    /\ Len(fcall.out.log) < MaxOps

\* ad.Next()
NextCall ==
    /\ DecoderInUse
    /\ LET r == AttributeDecoderNext(fcall.out.ad, fcall.args.order)
       IN  fcall' = [fcall EXCEPT !.out.ad = r.ad,
                        !.out.log = Append(@, Logged("Next", "", fcall.out.ad.err, r.ad.err,
                                                     0, FALSE, FALSE, r.ok))]
    /\ UNCHANGED connVars

\* ad.Uint8(), ad.Uint16(), ad.Uint32()
UintCall(k) ==
    /\ DecoderInUse
    /\ LET r == AttributeDecoderUint(fcall.out.ad, k, fcall.args.order)
       IN  fcall' = [fcall EXCEPT !.out.ad = r.ad,
                        !.out.log = Append(@, Logged("Uint", k, fcall.out.ad.err, r.ad.err,
                                                     r.v, r.panic, FALSE, FALSE))]
    /\ UNCHANGED connVars

\* ad.Do(fn), fn returning e
DoCall(e) ==
    /\ DecoderInUse
    /\ LET r == AttributeDecoderDo(fcall.out.ad, e)
       IN  fcall' = [fcall EXCEPT !.out.ad = r.ad,
                        !.out.log = Append(@, Logged("Do", "", fcall.out.ad.err, r.ad.err,
                                                     0, FALSE, r.invoked, FALSE))]
    /\ UNCHANGED connVars

\* ad.Err(), after which the caller is done with the decoder
ErrCall ==
    /\ fcall.op = "Decode"
    /\ fcall.out.pc = "use"
    /\ fcall' = [fcall EXCEPT !.out.err = AttributeDecoderErr(fcall.out.ad),
                              !.out.pc = "end", !.done = TRUE]
    /\ UNCHANGED connVars

NextDecoder ==
    \/ NewAttributeDecoderCall
    \/ NextCall
    \/ \E k \in DecoderKinds : UintCall(k)
    \/ \E e \in {Nil, errCallback} : DoCall(e)
    \/ ErrCall

SpecDecoder == InitDecoder /\ [][NextDecoder]_vars

(***************************************************************************)
(* The buffer model: one thread receives while the kernel delivers         *)
(* datagrams smaller than the first buffer of conn.Receive, as large as    *)
(* it, and larger.                                                         *)
(***************************************************************************)
\* a message of type 16 with a payload of n bytes
Sized(n, flags) == Msg(nlmsgLength(n), 16, flags, U32Zero, 0, Zeros(n))

\* datagrams of 16, 20, 32, 36, 64, 68 and 132 bytes, and a fragment of a
\* dump of 64 bytes
SizedDatagrams ==
    {<<Sized(n, 0)>> : n \in {0, 1, 15, 16, 17, 48, 113}}
      \cup {<<Sized(16, 0), Sized(20, 0)>>, <<Sized(48, HeaderFlagsMulti)>>}

NextPeek ==
    \/ RecvCall("t1")
    \/ RecvEnter("t1")
    \/ PeekDone("t1")
    \/ ReadDone("t1")
    \/ \E d \in SizedDatagrams : Deliver(d, MaxDatagrams)

SpecPeek == Init /\ [][NextPeek]_vars

\* the thread runs: inside Receive it keeps taking its steps
SpecPeekFair == SpecPeek /\ WF_vars(ReceiveSteps("t1"))

(***************************************************************************)
(* conn.SendMessages: the messages of a batch are marshalled one after the *)
(* other into one buffer, which a single Sendmsg hands to the kernel.  The *)
(* state of the call is [pc, i, buf, err, sendmsgs]: where it stands, the  *)
(* message that is next, the buffer so far, the error it returns and the   *)
(* buffers it has called Sendmsg with.                                     *)
(***************************************************************************)
SendMessagesStart == [pc |-> "marshal", i |-> 1, buf |-> << >>, err |-> Nil, sendmsgs |-> << >>]

\* a loop that leaves out a message it cannot marshal
SendMessagesStep_SkipInvalid(st, messages, order) ==
    IF st.i > Len(messages) THEN [st EXCEPT !.pc = "sendmsg"]
    ELSE LET r == MessageMarshalBinary(messages[st.i], order)
         IN  IF r.err # Nil THEN [st EXCEPT !.i = st.i + 1]
             ELSE [st EXCEPT !.buf = st.buf \o r.b, !.i = st.i + 1]

\* one iteration of the loop of conn.SendMessages(messages): the end of the
\* list, the return of the error of MarshalBinary, or the next message
\* appended to the buffer
SendMessagesStep(st, messages, order) ==
    IF st.i > Len(messages) THEN [st EXCEPT !.pc = "sendmsg"]
    ELSE LET r == MessageMarshalBinary(messages[st.i], order)
         IN  IF r.err # Nil THEN [st EXCEPT !.pc = "end", !.err = r.err]
             ELSE [st EXCEPT !.buf = st.buf \o r.b, !.i = st.i + 1]

\* c.s.Sendmsg(buf) on a socket that is closed or not, and the return of
\* its error
SendMessagesSendmsg(st, c) ==
    [st EXCEPT !.pc = "end", !.err = sockEnter(c), !.sendmsgs = Append(st.sendmsgs, st.buf)]

(***************************************************************************)
(* The batch model: the back-end sends a batch of messages, some of which  *)
(* cannot be marshalled, on a socket that is open or closed.               *)
(***************************************************************************)
MaxBatch == 2

\* a header alone, a message with a payload of 3 bytes, a message whose
\* Length is not a multiple of 4, one whose Length is too small, and one
\* whose Length leaves no room for its payload
BatchInputs ==
    {Msg(16, 16, HeaderFlagsRequest, U32(0, 1), 7, << >>),
     Msg(20, 17, HeaderFlagsRequest, U32(0, 2), 7, <<1, 2, 3>>),
     Msg(17, 18, HeaderFlagsRequest, U32(0, 3), 7, <<1>>),
     Msg(12, 19, HeaderFlagsRequest, U32(0, 4), 7, << >>),
     Msg(16, 20, HeaderFlagsRequest, U32(0, 5), 7, <<1>>)}

InitBatch ==
    /\ ConnInit({U32Zero}, {1})
    /\ dial = Dialed(pid)
    /\ \E messages \in SeqsUpTo(BatchInputs, MaxBatch), order \in ByteOrders, c \in BOOLEAN :
          fcall = [op |-> "SendMessages",
                   args |-> [messages |-> messages, order |-> order, closed |-> c],
                   out |-> SendMessagesStart, done |-> FALSE]

\* one iteration of the loop of conn.SendMessages
SendMessagesIter ==
    /\ fcall.op = "SendMessages"
    /\ fcall.out.pc = "marshal"
    /\ LET st == SendMessagesStep(fcall.out, fcall.args.messages, fcall.args.order)
       IN  fcall' = [fcall EXCEPT !.out = st, !.done = st.pc = "end"]
    /\ UNCHANGED connVars

\* the Sendmsg of conn.SendMessages
SendMessagesSendmsgCall ==
    /\ fcall.op = "SendMessages"
    /\ fcall.out.pc = "sendmsg"
    /\ fcall' = [fcall EXCEPT !.out = SendMessagesSendmsg(fcall.out, fcall.args.closed),
                              !.done = TRUE]
    /\ UNCHANGED connVars

NextBatch ==
    \/ SendMessagesIter
    \/ SendMessagesSendmsgCall

SpecBatch == InitBatch /\ [][NextBatch]_vars

(***************************************************************************)
(* Header flags: the named constants and the test f&flag != 0.             *)
(***************************************************************************)
\* a & b on naturals
RECURSIVE BitAnd(_, _)
BitAnd(a, b) ==
    IF a = 0 \/ b = 0 THEN 0
    ELSE (a % 2) * (b % 2) + 2 * BitAnd(a \div 2, b \div 2)

\* the named constants of type HeaderFlags
HeaderFlagNames ==
    {"request", "multi", "acknowledge", "echo", "dumpinterrupted",
     "dumpfiltered", "root", "match", "atomic", "dump"}

HeaderFlagsOf(name) ==
    CASE name = "request" -> HeaderFlagsRequest
      [] name = "multi" -> HeaderFlagsMulti
      [] name = "acknowledge" -> HeaderFlagsAcknowledge
      [] name = "echo" -> HeaderFlagsEcho
      [] name = "dumpinterrupted" -> HeaderFlagsDumpInterrupted
      [] name = "dumpfiltered" -> HeaderFlagsDumpFiltered
      [] name = "root" -> HeaderFlagsRoot
      [] name = "match" -> HeaderFlagsMatch
      [] name = "atomic" -> HeaderFlagsAtomic
      [] name = "dump" -> HeaderFlagsDump

\* the flag words of the eleven low bits
FlagWords == 0..2047

InitFlags ==
    /\ ConnInit({U32Zero}, {1})
    /\ dial = Dialed(pid)
    /\ \E f \in FlagWords :
          fcall = [op |-> "Flags", args |-> f, out |-> {}, done |-> FALSE]

\* f&flag != 0, for every named flag
FlagsCall ==
    /\ fcall.op = "Flags"
    /\ ~fcall.done
    /\ fcall' = [fcall EXCEPT
                   !.out = {name \in HeaderFlagNames :
                               BitAnd(fcall.args, HeaderFlagsOf(name)) # 0},
                   !.done = TRUE]
    /\ UNCHANGED connVars

NextFlags == FlagsCall

SpecFlags == InitFlags /\ [][NextFlags]_vars

(***************************************************************************)
(* Properties.                                                             *)
(***************************************************************************)
Range(q) == {q[i] : i \in 1..Len(q)}

Idle(t, op) == pc[t] = "idle" /\ res[t].op = op

\* the sequence number thread t holds from the counter: that of the message
\* it is sending or has sent, when the message came with sequence zero
HeldSequence(t) ==
    IF pc[t] # "idle" /\ loc[t].op \in {"Send", "Execute"} /\ loc[t].in.Sequence = U32Zero
    THEN {loc[t].m.Sequence}
    ELSE IF pc[t] = "idle" /\ res[t].op \in {"Send", "Execute"} /\ res[t].handed
            /\ res[t].in.Sequence = U32Zero
    THEN {res[t].m.Sequence}
    ELSE {}

\* C1: the Send calls that bring sequence zero, concurrent or not, are given
\* s0+1, s0+2, ..., s0+n modulo 2^32 in the order they draw from the counter:
\* each value once, none skipped, and no two threads hold the same one.
C1_SequenceNumbers ==
    /\ \A i \in 1..Len(assigned) : assigned[i] = U32Add(s0, i)
    /\ \A i, j \in 1..Len(assigned) : i # j => assigned[i] # assigned[j]
    /\ seq = U32Add(s0, Len(assigned))
    /\ \A t \in Threads : HeldSequence(t) \subseteq Range(assigned)
    /\ \A t, u \in Threads : t # u => HeldSequence(t) \cap HeldSequence(u) = {}

\* both threads are inside Send with a number from the counter, and the
\* counter has wrapped
C1_Witness ==
    /\ pc["t1"] = "send" /\ pc["t2"] = "send"
    /\ HeldSequence("t1") # {} /\ HeldSequence("t2") # {}
    /\ Len(assigned) = 2
    /\ seq = U32Zero

\* C2: Execute returns the replies of Receive exactly when Send, Receive and
\* Validate all succeed; in every other case it returns an error and no
\* replies.
C2_Execute ==
    \A t \in Threads :
        Idle(t, "Execute") =>
            LET r == res[t]
                sendOK == r.handed /\ r.sendErr = Nil
                recvOK == r.recvErr = Nil
                validOK ==
                    \A i \in 1..Len(r.recvMsgs) :
                        /\ r.recvMsgs[i].Sequence = r.m.Sequence \/ r.m.Sequence = U32Zero
                        /\ r.recvMsgs[i].PID = r.m.PID \/ r.m.PID = 0 \/ r.recvMsgs[i].PID = 0
            IN  /\ (r.err = Nil) <=> (sendOK /\ recvOK /\ validOK)
                /\ r.err = Nil => r.msgs = r.recvMsgs
                /\ r.err # Nil => r.msgs = << >>
                /\ ~sendOK => r.err = r.sendErr
                /\ sendOK /\ ~recvOK => r.err = r.recvErr

\* an Execute has returned the acknowledgement of its own request
C2_Witness ==
    \E t \in Threads :
        /\ Idle(t, "Execute")
        /\ res[t].err = Nil
        /\ Len(res[t].msgs) = 1
        /\ res[t].msgs[1].Sequence = res[t].m.Sequence

C4_SendPopulates ==
    (Idle("t1", "Send") /\ res["t1"].err = Nil) =>
        LET in == res["t1"].in
            out == res["t1"].m
            n == 16 + Len(in.Data)
        IN  /\ res["t1"].handed
            /\ sent # << >> /\ sent[Len(sent)] = out
            /\ in.Length # 0 => out.Length = in.Length
            /\ in.Length = 0 => out.Length % 4 = 0 /\ out.Length >= n /\ out.Length < n + 4
            /\ in.Sequence # U32Zero => out.Sequence = in.Sequence
            /\ in.Sequence = U32Zero => out.Sequence = seq /\ out.Sequence = U32Add(s0, Len(assigned))
            /\ in.PID # 0 => out.PID = in.PID
            /\ in.PID = 0 => out.PID = pid
            /\ out.Type = in.Type /\ out.Flags = in.Flags /\ out.Data = in.Data

\* a message with five payload bytes and zero Length, Sequence and PID was
\* sent as 24 bytes
C4_Witness ==
    /\ Idle("t1", "Send") /\ res["t1"].err = Nil
    /\ res["t1"].in.Length = 0 /\ res["t1"].in.Sequence = U32Zero /\ res["t1"].in.PID = 0
    /\ Len(res["t1"].in.Data) = 5
    /\ res["t1"].m.Length = 24
    /\ pid # 0

RECURSIVE Flatten(_)
\* the messages of the reads rs, in arrival order
Flatten(rs) == IF rs = << >> THEN << >> ELSE Head(rs) \o Flatten(Tail(rs))

\* the reads the Receive of thread t has consumed, or consumed before it
\* returned
ReadsOf(t) == IF pc[t] = "idle" THEN res[t].reads ELSE loc[t].reads

\* ms is a multi-part stream: messages with the multi flag, none of them an
\* error, the last one and no other of type done
MultiPartStream(ms) ==
    /\ Len(ms) >= 2
    /\ \A i \in 1..Len(ms) :
          /\ HasFlag(ms[i].Flags, HeaderFlagsMulti)
          /\ ms[i].Type # HeaderTypeError
          /\ (ms[i].Type = HeaderTypeDone) <=> (i = Len(ms))

\* C5: once the reads of one Receive hold a whole multi-part stream that
\* came over two reads or more, the Receive has returned, with every message
\* of the stream but the done message, in arrival order.
C5_MultiPartReassembled ==
    \A t \in Threads :
        LET rs == ReadsOf(t)
            ms == Flatten(rs)
        IN  (Len(rs) >= 2 /\ MultiPartStream(ms)) =>
                /\ Idle(t, "Receive")
                /\ res[t].err = Nil
                /\ res[t].msgs = SubSeq(ms, 1, Len(ms) - 1)

\* The same, for the streams whose done message comes in a read of its own.
C5_DoneInOwnRead ==
    \A t \in Threads :
        LET rs == ReadsOf(t)
            ms == Flatten(rs)
        IN  (Len(rs) >= 2 /\ MultiPartStream(ms) /\ Len(rs[Len(rs)]) = 1) =>
                /\ Idle(t, "Receive")
                /\ res[t].err = Nil
                /\ res[t].msgs = SubSeq(ms, 1, Len(ms) - 1)

\* three fragments and the done message came in four reads
C5_DoneInOwnRead_Witness ==
    /\ Idle("t1", "Receive")
    /\ Len(res["t1"].reads) = 4
    /\ MultiPartStream(Flatten(res["t1"].reads))
    /\ Len(res["t1"].msgs) = 3

\* message m carries an error: type error and a non-zero code
CarriesError(m) ==
    m.Type = HeaderTypeError /\ Len(m.Data) >= 4 /\ SubSeq(m.Data, 1, 4) # <<0, 0, 0, 0>>

\* message m is of type error and too short to hold a code
ShortError(m) == m.Type = HeaderTypeError /\ Len(m.Data) < 4

\* the places of ms that hold a message with an error, met before any short
\* error message
ErrorsMet(ms) ==
    {i \in 1..Len(ms) : CarriesError(ms[i]) /\ \A j \in 1..(i - 1) : ~ShortError(ms[j])}

C7_ErrnoIsNegatedCode ==
    \A t \in Threads :
        Idle(t, "Receive") =>
            LET ms == Flatten(res[t].reads)
            IN  \A i \in ErrorsMet(ms) :
                    (\A j \in ErrorsMet(ms) : i <= j) =>
                        LET c == getInt32(SubSeq(ms[i].Data, 1, 4))
                        IN  /\ res[t].msgs = << >>
                            /\ res[t].err.kind = "errno"
                            /\ res[t].err.code + c = 0
                            /\ c = -2 => res[t].err.code = ENOENT /\ IsNotExist(res[t].err)
                            /\ c # -2 => ~IsNotExist(res[t].err)

\* the bytes fe ff ff ff came in an error message, and Receive returned
\* ENOENT
C7_Witness ==
    /\ Idle("t1", "Receive")
    /\ res["t1"].reads = <<(<<ErrNoEnt>>)>>
    /\ res["t1"].msgs = << >>
    /\ res["t1"].err.code = ENOENT
    /\ IsNotExist(res["t1"].err)

\* the calls the claims about a closed connection speak of
UseOps == {"Receive", "Send", "SetOption", "SyscallConn"}

\* thread t has the result of a call that began after a Close had returned
UsedAfterClose(t) == pc[t] = "idle" /\ res[t].op \in UseOps /\ res[t].afterClose

ValidArguments(t) ==
    /\ res[t].op = "Send" =>
          \/ res[t].in.Length = 0
          \/ res[t].in.Length >= 16 /\ res[t].in.Length % 4 = 0
    /\ res[t].op = "SetOption" => res[t].arg \in ConnOptions

Receiving(t) == pc[t] \in {"peek", "peekw", "read", "readw"} /\ loc[t].op = "Receive"

\* the closed-connection errors
ClosedErrors == {errEBADF, errFileClosing}

\* C9: a Receive that is in flight, blocked or not, once a Close has
\* returned, returns in the end, and with a closed-connection error: EBADF
\* or "use of closed file".
C9_CloseUnblocksReceive ==
    \A t \in Threads :
        (Receiving(t) /\ closeReturned) ~>
            (Idle(t, "Receive") /\ res[t].err \in ClosedErrors /\ res[t].msgs = << >>)

\* a Receive that began before any Close and was blocked in the socket has
\* returned "use of closed file"
C9_Witness ==
    \E t \in Threads :
        /\ Idle(t, "Receive")
        /\ ~res[t].afterClose
        /\ res[t].err = errFileClosing
        /\ res[t].reads = << >>
        /\ closeReturned

DatagramsOf(t) == IF pc[t] = "idle" THEN res[t].dgrams ELSE loc[t].dgrams

\* C11: every datagram a Receive takes from the socket comes out of the read
\* whole: the messages of the read are the messages of the datagram, none
\* cut off and none lost, whatever the other thread does between the peek
\* and the read.
C11_DatagramsWhole ==
    \A t \in Threads :
        /\ Len(ReadsOf(t)) = Len(DatagramsOf(t))
        /\ \A i \in 1..Len(DatagramsOf(t)) : ReadsOf(t)[i] = DatagramsOf(t)[i]

\* each thread has received one whole datagram, one the small and one the
\* big one
C11_Witness ==
    /\ Idle("t1", "Receive") /\ res["t1"].dgrams = <<SmallDatagram>>
    /\ res["t1"].reads = <<SmallDatagram>>
    /\ Idle("t2", "Receive") /\ res["t2"].dgrams = <<BigDatagram>>
    /\ res["t2"].reads = <<BigDatagram>>

\* C12: when two threads call Execute on one connection, no Execute fails
\* with a sequence or PID mismatch, and the replies an Execute returns are
\* the kernel's answer to its own request.
C12_ExecuteSerialized ==
    \A t \in Threads :
        Idle(t, "Execute") =>
            /\ res[t].err \notin {errMismatchedSequence, errMismatchedPID}
            /\ \A i \in 1..Len(res[t].msgs) : res[t].msgs[i].Sequence = res[t].m.Sequence

\* both threads have each had the answer to their own request from Execute
C12_Witness ==
    \A t \in Threads :
        /\ Idle(t, "Execute")
        /\ res[t].err = Nil
        /\ Len(res[t].msgs) = 1
        /\ res[t].msgs[1].Sequence = res[t].m.Sequence

\* message m is the done message of a multi-part stream
IsDone(m) == HasFlag(m.Flags, HeaderFlagsMulti) /\ m.Type = HeaderTypeDone

\* C13: once the last message a Receive has read is a done message, whether
\* it came in a read of its own or behind fragments in the same datagram,
\* the Receive has returned: it makes no further back-end read.
C13_NoReadAfterDone ==
    \A t \in Threads :
        LET ms == Flatten(ReadsOf(t))
        IN  (Len(ms) >= 1 /\ IsDone(ms[Len(ms)])) => pc[t] = "idle"

\* a done message that came in a read of its own, after a read of
\* fragments, ended the Receive
C13_Witness ==
    /\ Idle("t1", "Receive")
    /\ Len(res["t1"].reads) = 2
    /\ Len(res["t1"].reads[2]) = 1
    /\ IsDone(res["t1"].reads[2][1])
    /\ res["t1"].err = Nil

\* C14: Receive does not panic: whatever the back-end reads yield, it returns
\* messages or an error.
C14_ReceiveNeverPanics ==
    \A t \in Threads : res[t].op \in {"Receive", "Execute"} => res[t].err # errPanic

\* a dump of only a done message gave an empty list, and a short error
\* message its error
C14_Witness ==
    /\ Idle("t1", "Receive")
    /\ \/ Len(Flatten(res["t1"].reads)) = 1 /\ IsDone(res["t1"].reads[1][1])
             /\ res["t1"].msgs = << >> /\ res["t1"].err = Nil
       \/ Len(Flatten(res["t1"].reads)) = 2 /\ ShortError(res["t1"].reads[1][2])
             /\ res["t1"].err = errShortErrorMessage

\* message m is an acknowledgement: type error and code zero
IsAck(m) ==
    m.Type = HeaderTypeError /\ Len(m.Data) >= 4 /\ SubSeq(m.Data, 1, 4) = <<0, 0, 0, 0>>

\* C15: an acknowledgement is no error: a Receive whose reads hold messages
\* and none with an error returns no error, and every acknowledgement it read
\* is in the list it returns, in its place and unchanged.
C15_AckReturned ==
    \A t \in Threads :
        Idle(t, "Receive") =>
            LET ms == Flatten(res[t].reads)
            IN  /\ (/\ Len(ms) >= 1
                    /\ \A i \in 1..Len(ms) : ~CarriesError(ms[i]) /\ ~ShortError(ms[i]))
                        => res[t].err = Nil
                /\ res[t].err = Nil =>
                        \A i \in 1..Len(ms) :
                            IsAck(ms[i]) => i <= Len(res[t].msgs) /\ res[t].msgs[i] = ms[i]

\* a read of one acknowledgement was returned as it came
C15_Witness ==
    /\ Idle("t1", "Receive")
    /\ res["t1"].reads = <<(<<Ack>>)>>
    /\ res["t1"].msgs = <<Ack>>
    /\ res["t1"].err = Nil

(***************************************************************************)
(* C16: Receive never blocks past the read deadline.  A Receive, or the    *)
(* receive step of an Execute, that is about to enter the socket after the *)
(* deadline the caller set has passed, or that waits in the socket with    *)
(* nothing to read when that deadline has passed, returns from this same   *)
(* call with an error that is a timeout, and with no messages.             *)
(***************************************************************************)
PastDeadline(t) ==
    /\ rdl.asked = "past"
    /\ pc[t] \in {"peek", "read"} \/ t \in Blocked(Threads)

TimedOut(t) ==
    /\ pc[t] = "idle"
    /\ res[t].op \in {"Receive", "Execute"}
    /\ IsTimeout(res[t].recvErr)
    /\ IsTimeout(res[t].err)
    /\ res[t].msgs = << >>
    /\ res[t].recvMsgs = << >>

C16_NeverBlocksPastDeadline ==
    \A k \in 1..(MaxCalls + 1) :
        (PastDeadline("t1") /\ calls = k) ~> (TimedOut("t1") /\ calls = k)

\* a Receive that read a fragment and then waited in the socket until the
\* deadline passed has returned the timeout
C16_Witness ==
    /\ TimedOut("t1")
    /\ res["t1"].op = "Receive"
    /\ res["t1"].rdlAtStart = "future"
    /\ res["t1"].timedOut
    /\ Len(res["t1"].reads) = 1

(***************************************************************************)
(* C17: when replies mismatch, Validate returns the error of the first     *)
(* mismatching reply in list order: the sequence error when that reply's   *)
(* sequence mismatches, else the PID error, whatever the replies after it  *)
(* hold.                                                                   *)
(***************************************************************************)
SequenceMismatch(request, m) ==
    m.Sequence # request.Sequence /\ request.Sequence # U32Zero

PIDMismatch(request, m) ==
    m.PID # request.PID /\ request.PID # 0 /\ m.PID # 0

\* the places in replies of the replies that mismatch
Mismatches(request, replies) ==
    {i \in 1..Len(replies) :
        SequenceMismatch(request, replies[i]) \/ PIDMismatch(request, replies[i])}

C17_FirstMismatch ==
    (fcall.op = "Validate" /\ fcall.done) =>
        LET request == fcall.args[1]
            replies == fcall.args[2]
            bad == Mismatches(request, replies)
        IN  bad # {} =>
                LET first == CHOOSE i \in bad : \A j \in bad : i <= j
                IN  fcall.out = IF SequenceMismatch(request, replies[first])
                                THEN errMismatchedSequence
                                ELSE errMismatchedPID

\* of two mismatching replies the first has only the wrong PID and the
\* second the wrong sequence, and Validate has returned the PID error
C17_Witness ==
    /\ fcall.op = "Validate" /\ fcall.done
    /\ Len(fcall.args[2]) = 2
    /\ Mismatches(fcall.args[1], fcall.args[2]) = {1, 2}
    /\ ~SequenceMismatch(fcall.args[1], fcall.args[2][1])
    /\ SequenceMismatch(fcall.args[1], fcall.args[2][2])
    /\ fcall.out = errMismatchedPID

C19_FailedBindClosesSocket ==
    (dial.pc = "done" /\ dial.err \in {errBind, errGetsockname}) =>
        /\ dial.sock
        /\ closed
        /\ ~dial.conn
        /\ pid = 0

\* Dial has failed at Getsockname, after the socket was bound
C19_Witness ==
    /\ dial.pc = "done"
    /\ dial.err = errGetsockname
    /\ dial.bound # 0
    /\ closed

(***************************************************************************)
(* C20: with Config.Strict, a Dial that got as far as the options returns  *)
(* a connection exactly when both the extended-ack and the                 *)
(* get-strict-check option were set without error, and both are then       *)
(* enabled on the socket; when setting one failed, Dial returns the error  *)
(* of that call and no connection, and the socket is closed.               *)
(***************************************************************************)
C20_StrictDial ==
    (dial.pc = "done" /\ dial.cfg.Strict
        /\ dial.err \notin {errSocket, errBind, errGetsockname}) =>
        /\ dial.conn <=> (Len(dial.tried) = 2 /\ \A i \in 1..2 : dial.tried[i] = Nil)
        /\ dial.conn =>
              /\ dial.err = Nil
              /\ {"ExtendedAcknowledge", "GetStrictCheck"} \subseteq sockopts
              /\ ~closed
        /\ ~dial.conn =>
              /\ dial.err # Nil
              /\ dial.err = dial.tried[Len(dial.tried)]
              /\ closed
              /\ pid = 0

\* extended-ack was enabled, get-strict-check was refused, and Dial has
\* failed with that error
C20_Witness ==
    /\ dial.pc = "done"
    /\ dial.cfg.Strict
    /\ dial.tried = <<Nil, errENOPROTOOPT>>
    /\ dial.err = errENOPROTOOPT
    /\ "ExtendedAcknowledge" \in sockopts
    /\ ~dial.conn
    /\ closed

(***************************************************************************)
(* C21: for every message that marshals without error, unmarshalling the   *)
(* marshalled bytes gives no error and a message with the same Length,     *)
(* Type, Flags, Sequence and PID and, byte by byte, the same payload.      *)
(***************************************************************************)
RoundTripped ==
    /\ fcall.op = "Marshal"
    /\ fcall.out.pc = "end"
    /\ fcall.out.err = Nil
    /\ fcall.out.writes = 0

C21_MessageRoundTrip ==
    RoundTripped =>
        /\ fcall.out.uerr = Nil
        /\ fcall.out.m.Length = fcall.args.m.Length
        /\ fcall.out.m.Type = fcall.args.m.Type
        /\ fcall.out.m.Flags = fcall.args.m.Flags
        /\ fcall.out.m.Sequence = fcall.args.m.Sequence
        /\ fcall.out.m.PID = fcall.args.m.PID
        /\ BytesOf(fcall.out.b, fcall.out.m.Data) = fcall.args.m.Data

\* a message whose payload fills its length has come back as it was, on a
\* host of either byte order
C21_Witness ==
    /\ RoundTripped
    /\ fcall.args.m.Length = 20
    /\ fcall.args.m.Data = <<1, 2, 3, 4>>
    /\ fcall.args.m.Type = 258
    /\ fcall.args.order = "big"
    /\ fcall.out.uerr = Nil
    /\ fcall.out.m.Type = 258
    /\ BytesOf(fcall.out.b, fcall.out.m.Data) = <<1, 2, 3, 4>>

(***************************************************************************)
(* C22: MarshalBinary returns no error exactly when Length is at least 16, *)
(* a multiple of 4, and the multiple of 4 that 16 plus the payload length  *)
(* rounds up to; else it returns the incorrect-length error.               *)
(***************************************************************************)
Marshalled ==
    /\ fcall.op = "Marshal"
    /\ fcall.out.pc # "marshal"

C22_MarshalChecksLength ==
    Marshalled =>
        LET m == fcall.args.m
        IN  /\ (fcall.out.err = Nil) <=>
                  /\ m.Length >= 16
                  /\ m.Length % 4 = 0
                  /\ m.Length = ((16 + Len(m.Data) + 3) \div 4) * 4
            /\ fcall.out.err \in {Nil, errIncorrectMessageLength}

\* lengths below 16 and lengths that are no multiple of 4 are refused
C22_Witness ==
    /\ Marshalled
    /\ fcall.args.m.Length = 17
    /\ fcall.args.m.Data = <<1>>
    /\ fcall.out.err = errIncorrectMessageLength
    /\ fcall.out.b = << >>

(***************************************************************************)
(* C23: the buffer of a successful MarshalBinary has the length Length     *)
(* rounds up to, a multiple of 4 that is at least 16; it holds Length,     *)
(* Type, Flags, Sequence and PID in this order, then the payload, then     *)
(* only zero bytes.                                                        *)
(***************************************************************************)
C23_MarshalledLayout ==
    (Marshalled /\ fcall.out.err = Nil /\ fcall.out.writes = 0) =>
        LET m == fcall.args.m
            b == fcall.out.b
            order == fcall.args.order
        IN  /\ Len(b) = ((m.Length + 3) \div 4) * 4
            /\ Len(b) % 4 = 0
            /\ Len(b) >= 16
            /\ SubSeq(b, 1, 4) = PutUint32(ToU32(m.Length), order)
            /\ SubSeq(b, 5, 6) = PutUint16(m.Type, order)
            /\ SubSeq(b, 7, 8) = PutUint16(m.Flags, order)
            /\ SubSeq(b, 9, 12) = PutUint32(m.Sequence, order)
            /\ SubSeq(b, 13, 16) = PutUint32(ToU32(m.PID), order)
            /\ Len(b) >= 16 + Len(m.Data)
            /\ \A i \in 17..Len(b) :
                  b[i] = IF i - 16 <= Len(m.Data) THEN m.Data[i - 16] ELSE 0

\* a payload of 3 bytes under Length 20 is followed by one zero byte
C23_Witness ==
    /\ Marshalled /\ fcall.out.err = Nil
    /\ fcall.args.m.Length = 20
    /\ fcall.args.m.Data = <<1, 2, 3>>
    /\ Len(fcall.out.b) = 20
    /\ SubSeq(fcall.out.b, 17, 20) = <<1, 2, 3, 0>>

(***************************************************************************)
(* C24: UnmarshalBinary returns no error exactly when its input has at     *)
(* least 16 bytes, a length that is a multiple of 4, and a length field    *)
(* equal to that length; else it returns the short-message or the          *)
(* unaligned-message error, and it reads no byte outside the input.        *)
(***************************************************************************)
Unmarshalled ==
    /\ fcall.op = "Unmarshal"
    /\ fcall.out.pc = "end"

C24_UnmarshalChecksFraming ==
    Unmarshalled =>
        LET n == fcall.args.n
        IN  /\ (fcall.out.uerr = Nil) <=>
                  (n >= 16 /\ n % 4 = 0 /\ fcall.args.l = U32(0, n))
            /\ fcall.out.uerr \in {Nil, errShortMessage, errUnalignedMessage}
            /\ fcall.out.uerr = Nil =>
                  /\ fcall.out.m.Length = n
                  /\ fcall.out.m.Data.hi <= n

\* an aligned input of 20 bytes whose length field says 2^16 + 16, or 24, is
\* refused
C24_Witness ==
    /\ Unmarshalled
    /\ fcall.args.n = 20
    /\ fcall.args.l \in {U32(1, 16), U32(0, 24)}
    /\ fcall.out.uerr = errShortMessage

(***************************************************************************)
(* C25: the payload of an unmarshalled message is its own: after the       *)
(* caller has written to the input buffer, the message's payload is what   *)
(* it was when UnmarshalBinary returned.                                   *)
(***************************************************************************)
C25_PayloadOwned ==
    (fcall.op \in {"Marshal", "Unmarshal"} /\ fcall.out.pc = "end"
        /\ fcall.out.err = Nil /\ fcall.out.uerr = Nil) =>
        BytesOf(fcall.out.b, fcall.out.m.Data) = fcall.out.data

\* the caller has overwritten a byte of the header of the input, and the
\* header of the message is what it was
C25_Witness ==
    /\ Unmarshalled
    /\ fcall.out.uerr = Nil
    /\ fcall.out.writes = 1
    /\ fcall.args.n = 20
    /\ fcall.out.b[5] = 255
    /\ fcall.out.m.Type = 513

(***************************************************************************)
(* C26: for every list of valid attributes (each with its length left to   *)
(* the marshaller or set to 4 plus the data length, at most 65535, and not *)
(* both flags), unmarshalling the marshalled bytes gives the attributes in *)
(* the same order with the same type and data, each with length 4 plus the *)
(* data length.                                                            *)
(***************************************************************************)
ValidAttribute(a) ==
    /\ a.Length \in {0, nlaHeaderLen + Len(a.Data)}
    /\ nlaHeaderLen + Len(a.Data) <= MaxUint16
    /\ ~(IsNested(a) /\ IsNetByteOrder(a))

AttributesMarshalled ==
    /\ fcall.op = "MarshalAttributes"
    /\ fcall.out.pc # "marshal"

C26_AttributesRoundTrip ==
    (AttributesMarshalled /\ \A k \in 1..Len(fcall.args.attrs) : ValidAttribute(fcall.args.attrs[k])) =>
        /\ fcall.out.err = Nil
        /\ fcall.out.pc = "end" =>
              LET in == fcall.args.attrs
                  got == fcall.out.st.attrs
              IN  /\ fcall.out.st.err = Nil
                  /\ Len(got) = Len(in)
                  /\ \A k \in 1..Len(in) :
                        /\ got[k].Type = in[k].Type
                        /\ got[k].Data = in[k].Data
                        /\ got[k].Length = 4 + Len(in[k].Data)

\* an attribute with one byte of data and a nested attribute with two have
\* come back
C26_Witness ==
    /\ AttributesMarshalled
    /\ fcall.out.pc = "end"
    /\ fcall.args.attrs = <<Attr(0, 2, <<1>>), Attr(0, NLA_F_NESTED + 1, <<1, 2>>)>>
    /\ fcall.out.st.attrs = <<Attr(5, 2, <<1>>), Attr(6, NLA_F_NESTED + 1, <<1, 2>>)>>

(***************************************************************************)
(* C27: in the bytes of a successful MarshalAttributes every attribute     *)
(* header starts at a multiple of 4, the total length is a multiple of 4,  *)
(* and the bytes from the end of an attribute's length to the next         *)
(* multiple of 4 are zero.                                                 *)
(***************************************************************************)
\* the length MarshalAttributes gives attribute a
LengthOf(a) == IF a.Length = 0 THEN ToU16(nlaHeaderLen + Len(a.Data)) ELSE a.Length

RECURSIVE OffsetOf(_, _)
\* where attribute k of attrs starts in the bytes
OffsetOf(attrs, k) ==
    IF k = 1 THEN 0 ELSE OffsetOf(attrs, k - 1) + nlaAlign(LengthOf(attrs[k - 1]))

C27_AttributesAligned ==
    (AttributesMarshalled /\ fcall.out.err = Nil) =>
        LET attrs == fcall.args.attrs
            b == fcall.out.b
            order == fcall.args.order
        IN  /\ Len(b) % 4 = 0
            /\ Len(b) = OffsetOf(attrs, Len(attrs) + 1)
            /\ \A k \in 1..Len(attrs) :
                  LET at == OffsetOf(attrs, k)
                  IN  /\ at % 4 = 0
                      /\ SubSeq(b, at + 1, at + 4) =
                            PutUint16(LengthOf(attrs[k]), order) \o PutUint16(attrs[k].Type, order)
                      /\ \A i \in (at + LengthOf(attrs[k]) + 1)..(at + nlaAlign(LengthOf(attrs[k]))) :
                            b[i] = 0

\* an attribute of 5 bytes is followed by 3 zero bytes and the next header
C27_Witness ==
    /\ AttributesMarshalled /\ fcall.out.err = Nil
    /\ fcall.args.attrs = <<Attr(0, 2, <<1>>), Attr(0, 1, << >>)>>
    /\ fcall.args.order = "little"
    /\ fcall.out.b = <<5, 0, 2, 0, 1, 0, 0, 0, 4, 0, 1, 0>>

(***************************************************************************)
(* C28: UnmarshalAttributes returns the invalid-attribute error and no     *)
(* attributes whenever an iteration finds the rest of the buffer not empty *)
(* and shorter than 4 bytes, or a length of 1 to 3, or a length that       *)
(* rounded up to a multiple of 4 exceeds the rest; it reads nothing        *)
(* outside the buffer, and it returns.                                     *)
(***************************************************************************)
\* an iteration of the loop has run
Iterated ==
    /\ fcall.op \in {"MarshalAttributes", "UnmarshalAttributes"}
    /\ fcall.out.err = Nil
    /\ fcall.out.st # UnmarshalStart

\* the rest of the buffer the last iteration found
Rest == SubSeq(fcall.out.b, fcall.out.prev + 1, Len(fcall.out.b))

BadRest(r, order) ==
    /\ r # << >>
    /\ \/ Len(r) < 4
       \/ Uint16(SubSeq(r, 1, 2), order) \in 1..3
       \/ ((Uint16(SubSeq(r, 1, 2), order) + 3) \div 4) * 4 > Len(r)

C28_Safe ==
    /\ Iterated => /\ fcall.out.st.err # errPanic
                   /\ fcall.out.st.i <= Len(fcall.out.b)
                   /\ ~fcall.out.st.done => fcall.out.st.i > fcall.out.prev
    /\ (Iterated /\ BadRest(Rest, fcall.args.order)) =>
          /\ fcall.out.st.done
          /\ fcall.out.st.err = errInvalidAttribute
          /\ fcall.out.st.attrs = << >>

C28_InvalidAttributeRefused ==
    []C28_Safe /\ (fcall.out.pc = "unmarshal" ~> fcall.out.pc = "end")

\* after one attribute was decoded, the rest of the buffer was found too
\* short for the length it declares, and nothing was returned but the error
C28_Witness ==
    /\ Iterated
    /\ fcall.op = "UnmarshalAttributes"
    /\ fcall.out.prev > 0
    /\ Len(Rest) = 4
    /\ BadRest(Rest, fcall.args.order)
    /\ fcall.out.st.err = errInvalidAttribute
    /\ fcall.out.st.attrs = << >>

(***************************************************************************)
(* C29: marshalling an attribute with both the nested and the              *)
(* net-byte-order flag fails with the invalid-flags error, and no          *)
(* marshalled attribute has both flags.                                    *)
(***************************************************************************)
BothFlags(a) == IsNested(a) /\ IsNetByteOrder(a)

C29_FlagsExclusive ==
    AttributesMarshalled =>
        LET attrs == fcall.args.attrs
        IN  /\ ((\A k \in 1..Len(attrs) : ValidAttribute([attrs[k] EXCEPT !.Type = 1]))
                    /\ (\E k \in 1..Len(attrs) : BothFlags(attrs[k])))
                 => fcall.out.err = errInvalidAttributeFlags
            /\ fcall.out.err = Nil => \A k \in 1..Len(attrs) : ~BothFlags(attrs[k])

\* an attribute with the nested flag alone is marshalled with the flag
C29_Witness ==
    /\ AttributesMarshalled
    /\ fcall.args.attrs = <<Attr(0, NLA_F_NESTED + 1, <<1, 2>>)>>
    /\ fcall.out.err = Nil
    /\ Uint16(SubSeq(fcall.out.b, 3, 4), fcall.args.order) = NLA_F_NESTED + 1

(***************************************************************************)
(* C30: marshalling an attribute whose header and data together have more  *)
(* than 65535 bytes returns an error.                                      *)
(***************************************************************************)
C30_LengthOverflow ==
    (AttributesMarshalled
        /\ \E k \in 1..Len(fcall.args.attrs) :
              nlaHeaderLen + Len(fcall.args.attrs[k].Data) > MaxUint16) =>
        fcall.out.err # Nil

\* data of 65532 bytes, with which the length wraps to 0, is refused
C30_Witness ==
    /\ AttributesMarshalled
    /\ fcall.args.attrs = <<Attr(0, 1, WrapData)>>
    /\ fcall.out.err = errInvalidAttribute

\* the put has returned or panicked
PutDone == fcall.op = "Put" /\ fcall.out.pc # "put"

\* the get has returned or panicked
GetDone == fcall.op \in {"Put", "Get"} /\ fcall.out.pc = "end" /\ ~fcall.out.putPanic

\* C32: a put or a get of an integer of width w (1, 2, 4 or 8 bytes) panics
\* when the slice is not exactly w bytes long, shorter or longer, and leaves
\* the slice as it was; otherwise the put writes and the get reads exactly
\* the w bytes of the slice, and the get after a put gives the value put.
C32_ExactWidth ==
    LET k == fcall.args.k
        w == Width(k)
    IN  /\ PutDone =>
            /\ w \in {1, 2, 4, 8}
            /\ fcall.out.putPanic <=> fcall.args.n # w
            /\ Len(fcall.out.b) = fcall.args.n
            /\ fcall.out.putPanic => fcall.out.b = Filled(fcall.args.n)
        /\ GetDone =>
            /\ fcall.out.getPanic <=> fcall.args.n # w
            /\ fcall.out.b # Filled(fcall.args.n) => fcall.op = "Put"
            /\ fcall.op = "Put" => ~fcall.out.getPanic /\ fcall.out.v = fcall.args.v
            /\ ~fcall.out.getPanic =>
                  InMemory(BytesLowFirst(k, fcall.out.v), fcall.args.order) = fcall.out.b

\* a uint64 that is not zero was put into a slice of 8 bytes on a big-endian
\* host and got from it again
C32_Witness ==
    /\ GetDone
    /\ fcall.op = "Put"
    /\ fcall.args.k = "Uint64"
    /\ fcall.args.order = "big"
    /\ fcall.args.v # ZeroOf("Uint64")
    /\ fcall.out.v = fcall.args.v
    /\ fcall.out.b = <<1, 2, 3, 4, 5, 6, 7, 8>>

\* the calls of the decoder so far
DecoderLog == IF fcall.op = "Decode" THEN fcall.out.log ELSE << >>

\* the first error the calls of log recorded, Nil when there is none
FirstError(log) ==
    LET S == {j \in 1..Len(log) : log[j].after # Nil}
    IN  IF S = {} THEN Nil ELSE log[CHOOSE j \in S : \A i \in S : j <= i].after

\* C31: once a call of the decoder has recorded an error, every later scalar
\* accessor returns the zero value and does not panic, a later callback is
\* not invoked, a later Next returns false, none of them changes the error,
\* and Err reports the first error that was recorded.
C31_StickyError ==
    /\ \A j \in 1..Len(DecoderLog) :
          LET e == DecoderLog[j]
          IN  e.before # Nil =>
                 /\ e.after = e.before
                 /\ ~e.panic
                 /\ e.op = "Uint" => e.v = ZeroOf(e.k)
                 /\ e.op = "Do" => ~e.invoked
                 /\ e.op = "Next" => ~e.ok
    /\ (fcall.op = "Decode" /\ fcall.out.pc = "end" /\ fcall.out.newErr = Nil) =>
          fcall.out.err = FirstError(DecoderLog)

\* Next gave an attribute of one byte, Uint16 recorded an error, Uint8 then
\* returned 0 for the byte 7, and Err reported the error of Uint16
C31_Witness ==
    /\ fcall.op = "Decode"
    /\ fcall.out.pc = "end"
    /\ Len(fcall.out.log) = 3
    /\ fcall.out.log[1].op = "Next" /\ fcall.out.log[1].ok
    /\ fcall.out.ad.a.Data = <<7>>
    /\ fcall.out.log[2].op = "Uint" /\ fcall.out.log[2].k = "Uint16"
    /\ fcall.out.log[2].before = Nil
    /\ fcall.out.log[3].op = "Uint" /\ fcall.out.log[3].k = "Uint8"
    /\ fcall.out.log[3].v = 0
    /\ fcall.out.err = errUnexpectedLength("Uint16")

\* thread t is inside Execute, between its send and the return of its receive
InExecute(t) == pc[t] \in {"peek", "peekw", "read", "readw"} /\ loc[t].op = "Execute"

\* a Send of another thread has taken effect since the send of the Execute
\* thread t is in
Raced(t) == InExecute(t) /\ sent[Len(sent)] # loc[t].m

\* result r is what the kernel's datagram d says: the acknowledgement, or the
\* error it carries and no messages
Answered(r, d) ==
    IF d[1].Data = <<0, 0, 0, 0>>
    THEN r.err = Nil /\ r.msgs = d
    ELSE r.err = newError(ENOENT) /\ r.msgs = << >>

Taken == delivered - Len(rxq)

\* the bytes of the datagram that is pending
Pending == DatagramLen(Head(rxq))

\* C34: with one receiver, the back-end Receive peeks at the pending datagram
\* of D bytes with buffers of P, 2P, 4P, ... bytes, P being the page size,
\* goes on to the read at the first buffer of more than D bytes, and reads
\* the datagram once into that buffer, whole; with a datagram pending, the
\* Receive gets to take it.
C34_Peeks ==
    LET t == "t1"
        buf == loc[t].buf
    IN  /\ (pc[t] = "idle" /\ pc'[t] = "peek") => loc'[t].buf = PageSize
        /\ (pc[t] = "peekw" /\ pc'[t] = "peek") =>
              /\ rxq # << >>
              /\ buf <= Pending
              /\ loc'[t].buf = 2 * buf
        /\ (pc[t] = "peekw" /\ pc'[t] = "read") =>
              /\ rxq # << >>
              /\ buf > Pending
              /\ buf = PageSize \/ buf \div 2 <= Pending
              /\ loc'[t].buf = buf
        /\ (pc[t] = "read" /\ pc'[t] = "readw") => loc'[t].buf = buf /\ rxq' = rxq
        /\ (pc[t] = "readw" /\ pc'[t] # "readw") =>
              /\ rxq # << >>
              /\ rxq' = Tail(rxq)
              /\ Recvmsg(Head(rxq), buf) = Pending
              /\ pc'[t] = "idle" =>
                    /\ res'[t].dgrams = Append(loc[t].dgrams, Head(rxq))
                    /\ res'[t].reads = Append(loc[t].reads, Head(rxq))
              /\ pc'[t] = "peek" =>
                    /\ loc'[t].reads = Append(loc[t].reads, Head(rxq))
                    /\ loc'[t].buf = PageSize

C34_PeekDoubling ==
    /\ [][C34_Peeks]_vars
    /\ \A k \in 0..MaxDatagrams :
          (pc["t1"] \in {"peek", "peekw", "read", "readw"} /\ rxq # << >> /\ Taken = k)
             ~> (Taken > k)

\* a Receive has returned a datagram of 132 bytes that it read into a buffer
\* of 256 bytes, after peeks with buffers of 32, 64 and 128 bytes
C34_Witness ==
    /\ Idle("t1", "Receive")
    /\ res["t1"].err = Nil
    /\ res["t1"].dgrams = <<(<<Sized(113, 0)>>)>>
    /\ res["t1"].msgs = <<Sized(113, 0)>>

\* C35: no sequence number is drawn twice on a connection, whether the Send
\* that drew it succeeded or failed: a Send that fails in the back-end after
\* it drew a number returns the zero message and the error, hands nothing to
\* the kernel, and the number it drew is given to no later Send.
C35_NoReuse ==
    /\ \A i, j \in 1..Len(assigned) : i # j => assigned[i] # assigned[j]
    /\ \A i \in 1..Len(sent) : sent[i].Sequence \in Range(assigned)
    /\ \A t \in Threads :
          (Idle(t, "Send") /\ res[t].sendErr # Nil) =>
             /\ res[t].m = ZeroMessage
             /\ res[t].err = res[t].sendErr
             /\ ~res[t].handed
             /\ res[t].msgs = << >>

\* a Send whose message could not be marshalled failed after it drew the
\* first number, and a later Send was sent with the second
C35_Witness ==
    /\ Idle("t1", "Send")
    /\ res["t1"].in.Sequence = U32Zero
    /\ res["t1"].sendErr = errIncorrectMessageLength
    /\ Idle("t2", "Send")
    /\ res["t2"].handed
    /\ Len(assigned) = 2
    /\ Len(sent) = 1
    /\ sent[1].Sequence = assigned[2]
    /\ res["t2"].m.Sequence = assigned[2]

\* a reply to message m that carries another sequence number
OtherSequence(m) == [m EXCEPT !.Sequence = U32Inc(m.Sequence)]

\* C36: a sequence number that Send assigns is never 0, also when the
\* counter passes 2^32 - 1, so that Validate checks the sequence of the
\* replies to every request that was sent with an assigned number.
C36_AssignedNeverZero ==
    /\ \A i \in 1..Len(assigned) : assigned[i] # U32Zero
    /\ \A i \in 1..Len(sent) :
          sent[i].Sequence \in Range(assigned) =>
             Validate(sent[i], <<OtherSequence(sent[i])>>) = errMismatchedSequence

\* a Send on a connection whose counter began at 0 was assigned 1, and
\* Validate refuses a reply to it that carries 2
C36_Witness ==
    /\ s0 = U32Zero
    /\ Len(sent) = 1
    /\ assigned = <<U32(0, 1)>>
    /\ sent[1].Sequence = U32(0, 1)
    /\ Validate(sent[1], <<OtherSequence(sent[1])>>) = errMismatchedSequence

\* the messages of the batch, and their bytes each
Batch == IF fcall.op = "SendMessages" THEN fcall.args.messages ELSE << >>

Marshalled37(k) == MessageMarshalBinary(Batch[k], fcall.args.order)

\* the bytes of the messages of the batch, one after the other in the order
\* of the list
BatchBytes == Concat([k \in 1..Len(Batch) |-> Marshalled37(k).b])

\* C37: a batch send marshals the messages in the order of the list into one
\* buffer and calls Sendmsg once, with that buffer; when a message of the
\* batch cannot be marshalled, it returns the error of the first such message
\* and calls Sendmsg not at all, and at no time has it called Sendmsg with a
\* part of the batch.
C37_BatchSend ==
    fcall.op = "SendMessages" =>
        LET st == fcall.out
            bad == {k \in 1..Len(Batch) : Marshalled37(k).err # Nil}
        IN  /\ Len(st.sendmsgs) <= 1
            /\ st.pc # "end" => st.sendmsgs = << >>
            /\ st.pc = "end" =>
                  IF bad = {}
                  THEN /\ st.sendmsgs = <<BatchBytes>>
                       /\ st.err = sockEnter(fcall.args.closed)
                  ELSE /\ st.sendmsgs = << >>
                       /\ st.err = Marshalled37(CHOOSE k \in bad : \A j \in bad : k <= j).err

\* a batch of two messages went out in one Sendmsg of 36 bytes, the first
\* message before the second
C37_Witness ==
    /\ fcall.op = "SendMessages"
    /\ fcall.out.pc = "end"
    /\ fcall.out.err = Nil
    /\ Len(Batch) = 2
    /\ Batch[1].Length = 16 /\ Batch[2].Length = 20
    /\ Len(fcall.out.sendmsgs) = 1
    /\ Len(fcall.out.sendmsgs[1]) = 36
    /\ SubSeq(fcall.out.sendmsgs[1], 33, 36) = <<1, 2, 3, 0>>

\* C38: a peek that returns zero bytes makes the back-end Receive peek again:
\* the Receive does not go on to the read with a datagram of no bytes, and no
\* Receive returns, with a result or an error, after it read one.
C38_EmptyPeekRetried ==
    /\ pc["t1"] \in {"read", "readw"} => (rxq # << >> /\ DatagramLen(Head(rxq)) > 0)
    /\ pc["t1"] = "idle" => \A i \in 1..Len(res["t1"].dgrams) : res["t1"].dgrams[i] # NoMessages

\* a Receive has peeked at a datagram of 20 bytes, read it and returned its
\* message
C38_Witness ==
    /\ Idle("t1", "Receive")
    /\ res["t1"].err = Nil
    /\ Len(res["t1"].dgrams) = 1
    /\ DatagramLen(res["t1"].dgrams[1]) = 20
    /\ res["t1"].msgs = res["t1"].dgrams[1]

\* C39: SetOption with an option that is none of the seven returns the
\* "not a protocol option" error, on an open and on a closed connection
\* alike (the socket is not entered), and the call changes nothing of the
\* socket: no option is set by it, and only the seven are ever set.
C39_UnknownOption ==
    /\ [](/\ Cardinality(ConnOptions) = 7
          /\ sockopts \subseteq ConnOptions
          /\ \A t \in Threads :
                (Idle(t, "SetOption") /\ res[t].arg \notin ConnOptions) =>
                   res[t].err = errENOPROTOOPT)
    /\ [][\A t \in Threads :
             (/\ res'[t] # res[t]
              /\ res'[t].op = "SetOption"
              /\ res'[t].arg \notin ConnOptions)
             => UNCHANGED <<sockopts, closed, rxq, sent, rdl>>]_vars

\* after Close has returned, SetOption with an unknown option has returned
\* ENOPROTOOPT, and SetOption with a known one EBADF
C39_Witness ==
    /\ Idle("t1", "SetOption")
    /\ res["t1"].arg = "NoSuchOption"
    /\ res["t1"].afterClose
    /\ res["t1"].err = errENOPROTOOPT
    /\ Idle("t2", "SetOption")
    /\ res["t2"].arg = "ExtendedAcknowledge"
    /\ res["t2"].err = errEBADF

\* the bit of weight w is set in the flag word f
BitSet(f, w) == (f \div w) % 2 = 1

\* C40: the flag constants are request=1, multi=2, acknowledge=4, echo=8,
\* dump_interrupted=16, dump_filtered=32, root=0x100, match=0x200,
\* atomic=0x400 and dump = root|match: each single flag is found in a flag
\* word exactly when its own bit is set, and dump when root or match is.
C40_FlagValues ==
    /\ HeaderFlagsRequest = 1
    /\ HeaderFlagsMulti = 2
    /\ HeaderFlagsAcknowledge = 4
    /\ HeaderFlagsEcho = 8
    /\ HeaderFlagsDumpInterrupted = 16
    /\ HeaderFlagsDumpFiltered = 32
    /\ HeaderFlagsRoot = 256
    /\ HeaderFlagsMatch = 512
    /\ HeaderFlagsAtomic = 1024
    /\ HeaderFlagsDump = HeaderFlagsRoot + HeaderFlagsMatch
    /\ (fcall.op = "Flags" /\ fcall.done) =>
          LET f == fcall.args
              has(name) == name \in fcall.out
          IN  /\ has("request") <=> BitSet(f, 1)
              /\ has("multi") <=> BitSet(f, 2)
              /\ has("acknowledge") <=> BitSet(f, 4)
              /\ has("echo") <=> BitSet(f, 8)
              /\ has("dumpinterrupted") <=> BitSet(f, 16)
              /\ has("dumpfiltered") <=> BitSet(f, 32)
              /\ has("root") <=> BitSet(f, 256)
              /\ has("match") <=> BitSet(f, 512)
              /\ has("atomic") <=> BitSet(f, 1024)
              /\ has("dump") <=> (BitSet(f, 256) \/ BitSet(f, 512))

\* what the program does instead: atomic is 0x300, the value of dump, so
\* the word root|match tests as atomic though its bit 0x400 is clear
C40_Witness ==
    /\ HeaderFlagsAtomic = HeaderFlagsDump
    /\ fcall.op = "Flags"
    /\ fcall.done
    /\ fcall.args = HeaderFlagsDump
    /\ "atomic" \in fcall.out
    /\ ~BitSet(fcall.args, 1024)

====
